---- MODULE Spec2Model ----
(***************************************************************************)
(* The Evaluation Engine of src/unnamed/part_002 (window.GraphApp.core.    *)
(* evaluation): the filter pipeline, the grid allocator, the session       *)
(* operations and the persisted snapshot, as a state machine; and the App  *)
(* component of src/js/app.js that drives it: the wave flow of the grid    *)
(* evaluation with its timers, and the undo history of                     *)
(* src/js/commands/snapshotHistory.js.                                     *)
(***************************************************************************)
EXTENDS Integers, Sequences, FiniteSets, TLC

VARIABLES
    selectedCandidates,      \* session.selectedCandidates, as the sequence of their ids
    selectedIds,             \* session.selectedIds
    batchSize,               \* session.batchSize
    currentBatchIndex,       \* session.currentBatchIndex
    currentBatchCandidates,  \* session.currentBatchCandidates: copies [ID_xA, gridRow, gridCol]
    scores,                  \* session.scores: Map id -> {score, timestamp, waveNumber, massScored}
    undecided,               \* session.undecided: Set of ids
    completedAt,             \* session.completedAt
    grid,                    \* session.grid: [cells, availableCells]
    config,                  \* session.config
    storage,                 \* localStorage['haystack_eval_session']: <<>> or <<snapshot>>
    storageThrows,           \* whether localStorage throws during the call being made
    records,                 \* the fields written on the caller's record objects, by id
    result,                  \* the call last made, its arguments and what it returned
    calls,                   \* number of engine calls made so far
    callLimit,               \* number of engine calls explored in this behaviour
    nodes,                   \* App state nodes: the array of records
    nodesRef,                \* nodesRef.current
    isEvalSession,           \* App state isEvalSession
    gridEvalBatch,           \* App state gridEvalBatch: copies [ID_xA, gridRow, gridCol]
    gridEvalBatchRef,        \* gridEvalBatchRef.current
    gridEvalExitingIds,      \* App state gridEvalExitingIds
    gridEvalAllDone,         \* App state gridEvalAllDone
    gridEvalGridRef,         \* gridEvalGridRef.current: <<>> (null) or <<grid>>
    timers,                  \* the setTimeout callbacks scheduled and not yet run
    evalStarted,             \* number of handleStartGridEval calls made so far
    history,                 \* historyRef.current.history
    currentIndex,            \* historyRef.current.currentIndex
    canUndo,                 \* App state canUndo
    canRedo                  \* App state canRedo

vars == <<selectedCandidates, selectedIds, batchSize, currentBatchIndex,
          currentBatchCandidates, scores, undecided, completedAt, grid, config,
          storage, storageThrows, records, result, calls, callLimit,
          nodes, nodesRef, isEvalSession, gridEvalBatch, gridEvalBatchRef,
          gridEvalExitingIds, gridEvalAllDone, gridEvalGridRef, timers, evalStarted,
          history, currentIndex, canUndo, canRedo>>

\* the state of the App component
appVars == <<nodes, nodesRef, isEvalSession, gridEvalBatch, gridEvalBatchRef,
             gridEvalExitingIds, gridEvalAllDone, gridEvalGridRef, timers, evalStarted,
             history, currentIndex, canUndo, canRedo>>

sessionVars == <<selectedCandidates, selectedIds, batchSize, currentBatchIndex,
                 currentBatchCandidates, scores, undecided, completedAt, grid, config>>

\* the App component once mounted, before a file is loaded: no records, the
\* empty array pushed on the history, no evaluation under way
mounted ==
    /\ nodes = <<>>
    /\ nodesRef = <<>>
    /\ isEvalSession = FALSE
    /\ gridEvalBatch = <<>>
    /\ gridEvalBatchRef = <<>>
    /\ gridEvalExitingIds = {}
    /\ gridEvalAllDone = FALSE
    /\ gridEvalGridRef = <<>>
    /\ timers = <<>>
    /\ evalStarted = 0
    /\ history = << <<>> >>
    /\ currentIndex = 0
    /\ canUndo = FALSE
    /\ canRedo = FALSE

-----------------------------------------------------------------------------
(* Bounds of the model *)

\* engine calls explored after createSession
MaxCalls == 3

\* calls explored on a bare grid (assignGridCell / releaseGridCell)
MaxGridCalls == 10

\* the values Math.random() is drawn from, as <<numerator, denominator>>
RandomValues == {<<0, 2>>, <<1, 2>>}

\* batch sizes a session is created with
BatchSizes == {2, 4}

\* scores a caller passes
ScoreValues == {1, 2}

-----------------------------------------------------------------------------
(* Values *)

GRID_SIZE == 3

\* JavaScript null / undefined where the other values are numbers
Null == 0
Undefined == -1

\* randomSeed: null is <<>>, the number n is <<n>>
NoSeed == <<>>

\* Date.now(): an epoch-ms value, positive; no claim compares two timestamps
DateNow == 1

\* the empty field value ('' / undefined / null) of Rank_xB and AI_Rank_xB
Empty == -1

\* The caller's dataset: three unranked records and a ranked one; "a", "c" and
\* "d" share root R1 and class K1.
AllCandidates ==
    << [ID_xA |-> "a", Node_xA |-> "Alpha", Group_xA |-> "G1", Rank_xB |-> Empty,
        AI_Rank_xB |-> 90, Roots |-> <<"R1", "", "">>, Classes |-> <<"K1", "", "">>],
       [ID_xA |-> "b", Node_xA |-> "Beta", Group_xA |-> "G1", Rank_xB |-> Empty,
        AI_Rank_xB |-> 10, Roots |-> <<"R2", "", "">>, Classes |-> <<"K2", "", "">>],
       [ID_xA |-> "c", Node_xA |-> "Gamma", Group_xA |-> "G2", Rank_xB |-> Empty,
        AI_Rank_xB |-> 55, Roots |-> <<"R3", "R1", "">>, Classes |-> <<"K1", "K3", "">>],
       [ID_xA |-> "d", Node_xA |-> "Delta", Group_xA |-> "G2", Rank_xB |-> 2,
        AI_Rank_xB |-> 77, Roots |-> <<"", "", "R1">>, Classes |-> <<"", "", "K1">>],
       [ID_xA |-> "e", Node_xA |-> "Epsilon", Group_xA |-> "G1", Rank_xB |-> Empty,
        AI_Rank_xB |-> Empty, Roots |-> <<"R2", "", "">>, Classes |-> <<"K2", "", "">>] >>

CandidateIds == { AllCandidates[i].ID_xA : i \in 1..Len(AllCandidates) }

AttributeValues == {"R1", "K2"}

MassScoreValues == {0}

Range(s) == { s[i] : i \in 1..Len(s) }

Min(a, b) == IF a <= b THEN a ELSE b

\* Math.ceil(a / b) for a >= 0, b > 0
Ceil(a, b) == (a + b - 1) \div b

\* the record of the dataset with this id (candidateMap.get / find by ID_xA)
CandidateById(id) ==
    AllCandidates[CHOOSE i \in 1..Len(AllCandidates) : AllCandidates[i].ID_xA = id]

-----------------------------------------------------------------------------
(* Filter pipeline *)

applyGroupFilter(candidates, groupFilter) ==
    IF groupFilter = {} THEN candidates
    ELSE SelectSeq(candidates, LAMBDA c : c.Group_xA \in groupFilter)

applyRankFilter(candidates, rankFilter) ==
    CASE rankFilter = "unranked" -> SelectSeq(candidates, LAMBDA c : c.Rank_xB = Empty)
      [] rankFilter = "ranked"   -> SelectSeq(candidates, LAMBDA c : c.Rank_xB # Empty)
      [] OTHER                   -> candidates

applyAIScoreThreshold(candidates, threshold) ==
    LET isFullRange == threshold.min = 0 /\ threshold.max = 100
    IN  SelectSeq(candidates, LAMBDA c :
            IF c.AI_Rank_xB = Empty THEN isFullRange
            ELSE c.AI_Rank_xB >= threshold.min /\ c.AI_Rank_xB <= threshold.max)

\* parseInt(c.AI_Rank_xB) || 0
RankOrZero(c) == IF c.AI_Rank_xB = Empty THEN 0 ELSE c.AI_Rank_xB

\* Array.prototype.sort is stable; the comparators are rankB - rankA (descending)
\* and rankA - rankB (ascending). Head(s) precedes every element of Tail(s), so it
\* is placed in front of the first element that does not sort strictly before it.
RECURSIVE PlaceByRank(_, _, _)
PlaceByRank(c, t, descending) ==
    IF t = <<>> THEN <<c>>
    ELSE IF (IF descending THEN RankOrZero(Head(t)) > RankOrZero(c)
                           ELSE RankOrZero(Head(t)) < RankOrZero(c))
         THEN <<Head(t)>> \o PlaceByRank(c, Tail(t), descending)
         ELSE <<c>> \o t

RECURSIVE SortByRank(_, _)
SortByRank(s, descending) ==
    IF s = <<>> THEN <<>>
    ELSE PlaceByRank(Head(s), SortByRank(Tail(s), descending), descending)

\* 32-bit words as <<high 16 bits, low 16 bits>>: the integer operators of
\* mulberry32 (+ and Math.imul modulo 2^32, ^, |, >>>) on them
W16 == 65536

Word(n) == <<(n \div W16) % W16, n % W16>>

RECURSIVE BitXor(_, _)
BitXor(a, b) ==
    IF a = 0 THEN b
    ELSE IF b = 0 THEN a
    ELSE ((a + b) % 2) + 2 * BitXor(a \div 2, b \div 2)

RECURSIVE BitOr(_, _)
BitOr(a, b) ==
    IF a = 0 THEN b
    ELSE IF b = 0 THEN a
    ELSE (IF a % 2 = 1 \/ b % 2 = 1 THEN 1 ELSE 0) + 2 * BitOr(a \div 2, b \div 2)

AddW(a, b) == <<(a[1] + b[1] + (a[2] + b[2]) \div W16) % W16, (a[2] + b[2]) % W16>>

XorW(a, b) == <<BitXor(a[1], b[1]), BitXor(a[2], b[2])>>

\* t | k for k < 2^16
OrW(a, k) == <<a[1], BitOr(a[2], k)>>

\* t >>> k for 0 < k < 16
ShrW(a, k) == <<a[1] \div (2 ^ k), (a[1] % (2 ^ k)) * (2 ^ (16 - k)) + a[2] \div (2 ^ k)>>

\* the 32-bit product of two 16-bit numbers, byte by byte
Mul16(x, y) ==
    LET mid == (x \div 256) * (y % 256) + (x % 256) * (y \div 256)
        low == (x % 256) * (y % 256) + (mid % 256) * 256
    IN  <<(x \div 256) * (y \div 256) + mid \div 256 + low \div W16, low % W16>>

\* Math.imul(a, b)
imul(a, b) ==
    <<(Mul16(a[2], b[2])[1] + Mul16(a[1], b[2])[2] + Mul16(a[2], b[1])[2]) % W16,
      Mul16(a[2], b[2])[2]>>

\* one call of the generator mulberry32 returns: the seed it leaves and the
\* 32-bit numerator of the number it returns (over 4294967296)
mulberry32(seed) ==
    LET next == AddW(seed, <<27947, 31221>>)
        t1   == imul(XorW(next, ShrW(next, 15)), OrW(next, 1))
        t2   == XorW(t1, AddW(t1, imul(XorW(t1, ShrW(t1, 7)), OrW(t1, 61))))
    IN  [seed |-> next, value |-> XorW(t2, ShrW(t2, 14))]

\* array with the elements at positions i and j exchanged
Swap(array, i, j) ==
    [k \in 1..Len(array) |-> IF k = i THEN array[j] ELSE IF k = j THEN array[i] ELSE array[k]]

\* the Fisher-Yates loop from index i (0-based) down to 1, j = floor(random() * (i + 1))
RECURSIVE shuffleFrom(_, _, _)
shuffleFrom(array, i, seed) ==
    IF i <= 0 THEN array
    ELSE LET r == mulberry32(seed)
             j == (r.value[1] * (i + 1) + (r.value[2] * (i + 1)) \div W16) \div W16
         IN  shuffleFrom(Swap(array, i + 1, j + 1), i - 1, r.seed)

\* seededShuffle(array, seed); a null seed is replaced by Date.now()
seededShuffle(array, seed) ==
    shuffleFrom(array, Len(array) - 1, Word(IF seed = NoSeed THEN DateNow ELSE seed[1]))

applySelectionMethod(candidates, method, seed) ==
    CASE method = "top-ai"    -> SortByRank(candidates, TRUE)
      [] method = "bottom-ai" -> SortByRank(candidates, FALSE)
      [] method = "random"    -> seededShuffle(candidates, seed)
      [] OTHER                -> candidates

\* c.Node_xA && c.Node_xA.trim() !== ''
HasName(c) == c.Node_xA \notin {"", " "}

filterCandidates(allCandidates, options) ==
    LET named    == SelectSeq(allCandidates, HasName)
        grouped  == applyGroupFilter(named, options.groupFilter)
        ranked   == applyRankFilter(grouped, options.rankFilter)
        inRange  == applyAIScoreThreshold(ranked, options.aiScoreThreshold)
        ordered  == applySelectionMethod(inRange, options.selectionMethod, options.randomSeed)
    IN  SubSeq(ordered, 1, Min(options.selectionCount, Len(ordered)))

DEFAULT_SESSION_OPTIONS ==
    [selectionCount |-> 50, batchSize |-> GRID_SIZE * GRID_SIZE,
     selectionMethod |-> "top-ai", rankFilter |-> "unranked",
     aiScoreThreshold |-> [min |-> 0, max |-> 100], groupFilter |-> {},
     randomSeed |-> NoSeed]

-----------------------------------------------------------------------------
(* Grid allocator *)

\* the Map key row + ',' + col of a coordinate, and the coordinate split(',') and
\* parseInt read back from it
cellKey(row, col) == <<row, col>>
keyRow(key) == key[1]
keyCol(key) == key[2]

\* the value assignGridCell returns when no cell is free; a copy made without a
\* cell has gridRow and gridCol undefined
NoCell == [row |-> Undefined, col |-> Undefined]

\* grid.cells is a Map: entries in insertion order, one per key
cellsHas(cells, key) == \E i \in 1..Len(cells) : cells[i].key = key

cellsGet(cells, key) == cells[CHOOSE i \in 1..Len(cells) : cells[i].key = key].id

cellsDelete(cells, key) == SelectSeq(cells, LAMBDA e : e.key # key)

cellsSet(cells, key, id) ==
    IF cellsHas(cells, key)
    THEN [i \in 1..Len(cells) |-> IF cells[i].key = key THEN [key |-> key, id |-> id] ELSE cells[i]]
    ELSE Append(cells, [key |-> key, id |-> id])

initGrid ==
    [cells |-> <<>>,
     availableCells |-> [i \in 1..(GRID_SIZE * GRID_SIZE) |->
                            [row |-> (i - 1) \div GRID_SIZE, col |-> (i - 1) % GRID_SIZE]]]

\* availableCells.splice(idx, 1)
RemoveAt(s, i) == SubSeq(s, 1, i - 1) \o SubSeq(s, i + 1, Len(s))

\* Math.floor(Math.random() * n) + 1, for every value Math.random() is drawn from
RandomIndexes(n) == { ((r[1] * n) \div r[2]) + 1 : r \in RandomValues }

\* every outcome [cell, grid] of assignGridCell(candidate, grid)
assignGridCell(id, g) ==
    IF Len(g.availableCells) = 0 THEN { [cell |-> NoCell, grid |-> g] }
    ELSE { LET cell == g.availableCells[idx]
           IN  [cell |-> cell,
                grid |-> [cells |-> cellsSet(g.cells, cellKey(cell.row, cell.col), id),
                          availableCells |-> RemoveAt(g.availableCells, idx)]]
           : idx \in RandomIndexes(Len(g.availableCells)) }

\* releaseGridCell without its cells.has(key) test
releaseGridCell_NoCheck(row, col, g) ==
    [cells |-> cellsDelete(g.cells, cellKey(row, col)),
     availableCells |-> Append(g.availableCells, [row |-> row, col |-> col])]

releaseGridCell(row, col, g) ==
    LET key == cellKey(row, col)
    IN  IF cellsHas(g.cells, key)
        THEN [cells |-> cellsDelete(g.cells, key),
              availableCells |-> Append(g.availableCells, [row |-> row, col |-> col])]
        ELSE g

-----------------------------------------------------------------------------
(* Persistence *)

\* what saveSession serializes of the session
serializable ==
    [selectedIds |-> selectedIds,
     batchSize |-> batchSize,
     currentBatchIndex |-> currentBatchIndex,
     currentBatchData |-> [i \in 1..Len(currentBatchCandidates) |->
                             [id |-> currentBatchCandidates[i].ID_xA,
                              gridRow |-> currentBatchCandidates[i].gridRow,
                              gridCol |-> currentBatchCandidates[i].gridCol]],
     scores |-> scores,
     undecided |-> undecided,
     completedAt |-> completedAt,
     grid |-> [cells |-> grid.cells, availableCells |-> grid.availableCells],
     config |-> config]

\* saveSession without its try/catch: when setItem throws the exception leaves the
\* operation that called it, which then returns nothing
saveSession_Uncaught == ~storageThrows' /\ storage' = <<serializable'>>

\* saveSession called only before the completion test, so that the slot keeps the
\* completedAt the session had
saveSession_BeforeCompletion ==
    storage' = IF storageThrows' THEN storage
               ELSE <<[serializable' EXCEPT !.completedAt = completedAt]>>

\* saveSession(session), called once the session has its new values; a throwing
\* setItem is caught and the slot keeps what it held
saveSession == storage' = IF storageThrows' THEN storage ELSE <<serializable'>>

\* the call being made finds localStorage working
storageWorks == storageThrows' = FALSE

-----------------------------------------------------------------------------
(* Session operations *)

\* the config createSession stores in the session
configOf(options) ==
    [selectionCount |-> options.selectionCount, selectionMethod |-> options.selectionMethod,
     rankFilter |-> options.rankFilter, aiScoreThreshold |-> options.aiScoreThreshold,
     groupFilter |-> options.groupFilter, randomSeed |-> options.randomSeed]

\* a record object of the caller's dataset on which no grid field was written
NoFields == <<>>

\* the first createSession(allCandidates, options) of a caller: the session it
\* returns and saves
createdWithin(allCandidates, options, limit) ==
    LET selected == filterCandidates(allCandidates, options)
        ids      == [i \in 1..Len(selected) |-> selected[i].ID_xA]
    IN  /\ Len(selected) > 0
        /\ selectedCandidates = ids
        /\ selectedIds = ids
        /\ batchSize = options.batchSize
        /\ currentBatchIndex = 0
        /\ currentBatchCandidates = <<>>
        /\ scores = <<>>
        /\ undecided = {}
        /\ completedAt = Null
        /\ grid = initGrid
        /\ config = configOf(options)
        /\ storage = <<[selectedIds |-> ids, batchSize |-> options.batchSize,
                        currentBatchIndex |-> 0, currentBatchData |-> <<>>,
                        scores |-> <<>>, undecided |-> {}, completedAt |-> Null,
                        grid |-> [cells |-> initGrid.cells,
                                  availableCells |-> initGrid.availableCells],
                        config |-> configOf(options)]>>
        /\ storageThrows = FALSE
        /\ records = [id \in { allCandidates[i].ID_xA : i \in 1..Len(allCandidates) } |-> NoFields]
        /\ result = [op |-> "createSession", options |-> options, error |-> FALSE,
                     suggestions |-> <<>>, selected |-> ids]
        /\ calls = 0
        /\ callLimit = limit
        /\ mounted

created(allCandidates, options) == createdWithin(allCandidates, options, MaxCalls)

\* createSession(AllCandidates, {batchSize: bs})
createSession(bs) == created(AllCandidates, [DEFAULT_SESSION_OPTIONS EXCEPT !.batchSize = bs])

Init == \E bs \in BatchSizes : createSession(bs)

scoresHas(id) == id \in DOMAIN scores

\* scoreCandidate with its "Already scored" test dropped
alreadyScored_Never(candidateId) == FALSE

\* if (session.scores.has(candidateId)) return { success: false, ... }
alreadyScored(candidateId) == scoresHas(candidateId)

\* the completion test with > in place of >=
isComplete_Strict(sc, und) == Cardinality(DOMAIN sc) + Cardinality(und) > Len(selectedCandidates)

\* totalProcessed >= totalToEvaluate, on the given scores and undecided
isComplete(sc, und) == Cardinality(DOMAIN sc) + Cardinality(und) >= Len(selectedCandidates)

\* the entry scoreCandidate stores
scoreEntry(score) ==
    [score |-> score, timestamp |-> DateNow, waveNumber |-> currentBatchIndex + 1,
     massScored |-> FALSE]

scoreCandidate(candidateId, score) ==
    /\ calls < callLimit
    /\ calls' = calls + 1
    /\ UNCHANGED <<callLimit, appVars>>
    /\ UNCHANGED records
    /\ IF alreadyScored(candidateId)
       THEN /\ result' = [op |-> "scoreCandidate", id |-> candidateId, score |-> score,
                          success |-> FALSE, evaluationComplete |-> FALSE]
            /\ UNCHANGED <<sessionVars, storage>>
       ELSE LET newScores == (candidateId :> scoreEntry(score)) @@ scores
                evaluationComplete == isComplete(newScores, undecided)
            IN  /\ scores' = newScores
                /\ completedAt' = IF evaluationComplete THEN DateNow ELSE completedAt
                /\ UNCHANGED <<selectedCandidates, selectedIds, batchSize, currentBatchIndex,
                               currentBatchCandidates, undecided, grid, config>>
                /\ saveSession
                /\ result' = [op |-> "scoreCandidate", id |-> candidateId, score |-> score,
                              success |-> TRUE, evaluationComplete |-> evaluationComplete]

skipCandidate(candidateId) ==
    /\ calls < callLimit
    /\ calls' = calls + 1
    /\ UNCHANGED <<callLimit, appVars>>
    /\ UNCHANGED records
    /\ LET newUndecided == undecided \cup {candidateId}
           evaluationComplete == isComplete(scores, newUndecided)
       IN  /\ undecided' = newUndecided
           /\ completedAt' = IF evaluationComplete THEN DateNow ELSE completedAt
           /\ UNCHANGED <<selectedCandidates, selectedIds, batchSize, currentBatchIndex,
                          currentBatchCandidates, scores, grid, config>>
           /\ saveSession
           /\ result' = [op |-> "skipCandidate", id |-> candidateId,
                         success |-> TRUE, evaluationComplete |-> evaluationComplete]

advanceToNextBatch ==
    /\ calls < callLimit
    /\ calls' = calls + 1
    /\ UNCHANGED <<callLimit, appVars>>
    /\ UNCHANGED records
    /\ LET totalBatches == Ceil(Len(selectedCandidates), batchSize)
       IN  IF currentBatchIndex < totalBatches - 1
           THEN /\ currentBatchIndex' = currentBatchIndex + 1
                /\ UNCHANGED <<selectedCandidates, selectedIds, batchSize,
                               currentBatchCandidates, scores, undecided, completedAt, grid, config>>
                /\ saveSession
                /\ result' = [op |-> "advanceToNextBatch", advanced |-> TRUE]
           ELSE /\ result' = [op |-> "advanceToNextBatch", advanced |-> FALSE]
                /\ UNCHANGED <<sessionVars, storage>>

\* candidates.filter(c => !scores.has(c.ID_xA) && !undecided.has(c.ID_xA))
unprocessed == SelectSeq(selectedCandidates, LAMBDA id : ~scoresHas(id) /\ id \notin undecided)

\* the copy Object.assign({}, c, {gridRow, gridCol}) of a record
withGrid(id, cell) == [ID_xA |-> id, gridRow |-> cell.row, gridCol |-> cell.col]

\* unprocessed.slice(0, batchSize).map(assignGridCell ...): every outcome
\* [batch, grid], one random draw per record
RECURSIVE assignAll(_, _)
assignAll(ids, g) ==
    IF ids = <<>> THEN { [batch |-> <<>>, grid |-> g] }
    ELSE UNION { { [batch |-> <<withGrid(Head(ids), a.cell)>> \o rest.batch, grid |-> rest.grid]
                   : rest \in assignAll(Tail(ids), a.grid) }
                 : a \in assignGridCell(Head(ids), g) }

getNextBatchWithGridPositions ==
    /\ calls < callLimit
    /\ calls' = calls + 1
    /\ UNCHANGED <<callLimit, appVars>>
    /\ UNCHANGED records
    /\ \E out \in assignAll(SubSeq(unprocessed, 1, Min(batchSize, Len(unprocessed))), grid) :
          /\ grid' = out.grid
          /\ currentBatchCandidates' = out.batch
          /\ UNCHANGED <<selectedCandidates, selectedIds, batchSize, currentBatchIndex,
                         scores, undecided, completedAt, config>>
          /\ saveSession
          /\ result' = [op |-> "getNextBatchWithGridPositions", batch |-> out.batch]

\* currentBatch.find(c => c.ID_xA === candidateId): its index, 0 when there is none
findInBatch(batch, candidateId) ==
    IF \E i \in 1..Len(batch) : batch[i].ID_xA = candidateId
    THEN CHOOSE i \in 1..Len(batch) :
            /\ batch[i].ID_xA = candidateId
            /\ \A j \in 1..(i - 1) : batch[j].ID_xA # candidateId
    ELSE 0

withoutId(batch, candidateId) == SelectSeq(batch, LAMBDA c : c.ID_xA # candidateId)

removeFromBatch(candidateId) ==
    /\ calls < callLimit
    /\ calls' = calls + 1
    /\ UNCHANGED <<callLimit, appVars>>
    /\ UNCHANGED records
    /\ LET i == findInBatch(currentBatchCandidates, candidateId)
       IN  /\ grid' = IF i # 0 /\ currentBatchCandidates[i].gridRow # Undefined
                      THEN releaseGridCell(currentBatchCandidates[i].gridRow,
                                           currentBatchCandidates[i].gridCol, grid)
                      ELSE grid
           /\ currentBatchCandidates' = withoutId(currentBatchCandidates, candidateId)
           /\ UNCHANGED <<selectedCandidates, selectedIds, batchSize, currentBatchIndex,
                          scores, undecided, completedAt, config>>
           /\ saveSession
           /\ result' = [op |-> "removeFromBatch", id |-> candidateId,
                         remaining |-> Len(currentBatchCandidates')]

\* replaceInGrid choosing its replacement without the currentIds test
nextCandidate_IgnoreBatch(batch) ==
    LET free == SelectSeq(selectedCandidates, LAMBDA id : ~scoresHas(id) /\ id \notin undecided)
    IN  SubSeq(free, 1, Min(1, Len(free)))

\* candidates.find(c => !scores.has && !undecided.has && !currentIds.has): the
\* sequence holding the first such id, or <<>>
nextCandidate(batch) ==
    LET free == SelectSeq(selectedCandidates, LAMBDA id :
                    /\ ~scoresHas(id)
                    /\ id \notin undecided
                    /\ \A j \in 1..Len(batch) : batch[j].ID_xA # id)
    IN  SubSeq(free, 1, Min(1, Len(free)))

\* the grid after replaceInGrid has released the departing cell and bound it to next
replacedGrid(g, departing, next) ==
    LET released == releaseGridCell(departing.gridRow, departing.gridCol, g)
    IN  IF next = <<>> THEN released
        ELSE [released EXCEPT !.cells =
                 cellsSet(released.cells, cellKey(departing.gridRow, departing.gridCol), next[1])]

replaceInGrid(candidateId) ==
    /\ calls < callLimit
    /\ calls' = calls + 1
    /\ UNCHANGED <<callLimit, appVars>>
    /\ UNCHANGED records
    /\ LET i == findInBatch(currentBatchCandidates, candidateId)
       IN  IF i = 0 \/ currentBatchCandidates[i].gridRow = Undefined
           THEN /\ result' = [op |-> "replaceInGrid", id |-> candidateId, found |-> FALSE,
                              replaced |-> FALSE, next |-> <<>>]
                /\ UNCHANGED <<sessionVars, storage>>
           ELSE LET departing == currentBatchCandidates[i]
                    remaining == withoutId(currentBatchCandidates, candidateId)
                    next      == nextCandidate(remaining)
                IN  /\ grid' = replacedGrid(grid, departing, next)
                    /\ currentBatchCandidates' =
                          IF next = <<>> THEN remaining
                          ELSE Append(remaining, withGrid(next[1], [row |-> departing.gridRow,
                                                                     col |-> departing.gridCol]))
                    /\ UNCHANGED <<selectedCandidates, selectedIds, batchSize,
                                   currentBatchIndex, scores, undecided, completedAt, config>>
                    /\ saveSession
                    /\ result' = [op |-> "replaceInGrid", id |-> candidateId, found |-> TRUE,
                                  replaced |-> next # <<>>,
                                  next |-> IF next = <<>> THEN <<>>
                                           ELSE <<withGrid(next[1], [row |-> departing.gridRow,
                                                                      col |-> departing.gridCol])>>]

\* the root (or class) slots 1, 2, 3 of a record compared with attributeValue
matchesAttribute(c, attributeType, attributeValue) ==
    IF attributeType = "root"
    THEN c.Roots[1] = attributeValue \/ c.Roots[2] = attributeValue \/ c.Roots[3] = attributeValue
    ELSE c.Classes[1] = attributeValue \/ c.Classes[2] = attributeValue
                                       \/ c.Classes[3] = attributeValue

\* the entry massScoreByAttribute stores
massEntry(score) ==
    [score |-> score, timestamp |-> DateNow, waveNumber |-> currentBatchIndex + 1,
     massScored |-> TRUE]

\* session.grid.cells.forEach(... releaseGridCell ...) for one scored id: every
\* cell bound to the id is released, in Map order
RECURSIVE releaseCellsOf(_, _)
releaseCellsOf(id, g) ==
    IF \E i \in 1..Len(g.cells) : g.cells[i].id = id
    THEN LET i   == CHOOSE k \in 1..Len(g.cells) :
                        /\ g.cells[k].id = id
                        /\ \A j \in 1..(k - 1) : g.cells[j].id # id
             key == g.cells[i].key
         IN  releaseCellsOf(id, releaseGridCell(keyRow(key), keyCol(key), g))
    ELSE g

RECURSIVE releaseScored(_, _)
releaseScored(ids, g) ==
    IF ids = <<>> THEN g ELSE releaseScored(Tail(ids), releaseCellsOf(Head(ids), g))

\* reScored: the matching records whose id is in scores when the loop reaches them
countReScored(scoredIds) ==
    Cardinality({ i \in 1..Len(scoredIds) :
                    \/ scoresHas(scoredIds[i])
                    \/ \E j \in 1..(i - 1) : scoredIds[j] = scoredIds[i] })

\* massScoreByAttribute searching the selected records whatever allNodes is
massCandidates_SelectedOnly(useAllNodes) ==
    [i \in 1..Len(selectedCandidates) |-> CandidateById(selectedCandidates[i])]

\* allNodes || session.selectedCandidates
massCandidates(useAllNodes) ==
    IF useAllNodes THEN AllCandidates
    ELSE [i \in 1..Len(selectedCandidates) |-> CandidateById(selectedCandidates[i])]

massScoreByAttribute(attributeType, attributeValue, score, useAllNodes) ==
    /\ calls < callLimit
    /\ calls' = calls + 1
    /\ UNCHANGED <<callLimit, appVars>>
    /\ UNCHANGED records
    /\ \E matching \in { SelectSeq(massCandidates(useAllNodes),
                                   LAMBDA c : matchesAttribute(c, attributeType, attributeValue)) } :
       \E scoredIds \in { [i \in 1..Len(matching) |-> matching[i].ID_xA] } :
       \E newScores \in { [id \in DOMAIN scores \cup Range(scoredIds) |->
                             IF id \in Range(scoredIds) THEN massEntry(score) ELSE scores[id]] } :
           /\ scores' = newScores
           /\ grid' = releaseScored(scoredIds, grid)
           /\ currentBatchCandidates' =
                 SelectSeq(currentBatchCandidates, LAMBDA c : c.ID_xA \notin Range(scoredIds))
           /\ completedAt' = IF isComplete(newScores, undecided) THEN DateNow ELSE completedAt
           /\ UNCHANGED <<selectedCandidates, selectedIds, batchSize, currentBatchIndex,
                          undecided, config>>
           /\ saveSession
           /\ result' = [op |-> "massScoreByAttribute", attributeType |-> attributeType,
                         attributeValue |-> attributeValue, score |-> score,
                         useAllNodes |-> useAllNodes, affected |-> Len(matching),
                         reScored |-> countReScored(scoredIds), scoredIds |-> scoredIds]

\* Math.round(n / d * 100) for n >= 0, d > 0: the nearest integer, halves upwards
RoundPercent(n, d) == (200 * n + d) \div (2 * d)

\* getProgress(session), on the session held
getProgress ==
    LET total   == Len(selectedCandidates)
        scored  == Cardinality(DOMAIN scores)
        skipped == Cardinality(undecided)
    IN  [total |-> total,
         scored |-> scored,
         skipped |-> skipped,
         remaining |-> total - scored - skipped,
         currentWave |-> currentBatchIndex + 1,
         totalWaves |-> Ceil(total, batchSize),
         percentComplete |-> IF total > 0 THEN RoundPercent(scored + skipped, total) ELSE 0]

-----------------------------------------------------------------------------
(* Creating a further session, and the persisted slot *)

\* localStorage.removeItem inside clearSession(): what the slot holds afterwards
clearedSlot == IF storageThrows' THEN storage ELSE <<>>

\* Object.assign({}, DEFAULT_SESSION_OPTIONS, options || {}): the caller's fields
\* over the defaults
merged(given) ==
    [f \in DOMAIN DEFAULT_SESSION_OPTIONS |->
        IF f \in DOMAIN given THEN given[f] ELSE DEFAULT_SESSION_OPTIONS[f]]

\* createSession returning its error object for every selection
noneEligible_Always(selected) == TRUE

\* createSession never returning its error object
noneEligible_Never(selected) == FALSE

\* selected.length === 0
noneEligible(selected) == Len(selected) = 0

\* createSession(allCandidates, given) at time now, on a caller that already holds
\* a session; given is the options object the caller passes
\* (options, selected and ids are each computed once and bound)
createSessionOn(allCandidates, given, now) ==
    \E options \in { IF merged(given).selectionMethod = "random"
                         /\ merged(given).randomSeed \in {NoSeed, <<0>>}
                      THEN [merged(given) EXCEPT !.randomSeed = <<now>>]
                      ELSE merged(given) } :
    \E selected \in { filterCandidates(allCandidates, options) } :
    \E ids \in { [i \in 1..Len(selected) |-> selected[i].ID_xA] } :
        /\ calls < callLimit
        /\ calls' = calls + 1
        /\ UNCHANGED <<callLimit, appVars>>
        /\ UNCHANGED records
        /\ IF noneEligible(selected)
           THEN /\ result' = [op |-> "createSession", options |-> given, error |-> TRUE,
                              suggestions |-> <<"Try expanding the AI score range",
                                                "Include ranked candidates",
                                                "Select more groups">>,
                              selected |-> <<>>]
                /\ UNCHANGED <<sessionVars, storage>>
           ELSE /\ selectedCandidates' = ids
                /\ selectedIds' = ids
                /\ batchSize' = options.batchSize
                /\ currentBatchIndex' = 0
                /\ currentBatchCandidates' = <<>>
                /\ scores' = <<>>
                /\ undecided' = {}
                /\ completedAt' = Null
                /\ grid' = initGrid
                /\ config' = configOf(options)
                /\ storage' = IF storageThrows' THEN clearedSlot ELSE <<serializable'>>
                /\ result' = [op |-> "createSession", options |-> given, error |-> FALSE,
                              suggestions |-> <<>>, selected |-> ids]

\* the public saveSession(session) on the session as it is
callSaveSession ==
    /\ calls < callLimit
    /\ calls' = calls + 1
    /\ UNCHANGED <<callLimit, appVars>>
    /\ UNCHANGED <<sessionVars, records>>
    /\ saveSession
    /\ result' = [op |-> "saveSession"]

clearSession ==
    /\ calls < callLimit
    /\ calls' = calls + 1
    /\ UNCHANGED <<callLimit, appVars>>
    /\ UNCHANGED <<sessionVars, records>>
    /\ storage' = clearedSlot
    /\ result' = [op |-> "clearSession"]

\* !data.completedAt of the parsed slot; false when the slot is empty or getItem throws
hasResumableSession ==
    /\ calls < callLimit
    /\ calls' = calls + 1
    /\ UNCHANGED <<callLimit, appVars>>
    /\ UNCHANGED <<sessionVars, records, storage>>
    /\ result' = [op |-> "hasResumableSession",
                  resumable |-> /\ ~storageThrows'
                                /\ storage # <<>>
                                /\ storage[1].completedAt = Null]

\* the gridRow / gridCol loadSession has written on the record objects once its
\* forEach over currentBatchData reached item n; present is the set of ids of
\* the dataset it was given (the keys of candidateMap)
RECURSIVE written(_, _, _, _)
written(recs, items, n, present) ==
    IF n = 0 THEN recs
    ELSE LET before == written(recs, items, n - 1, present)
         IN  IF items[n].id \in present
             THEN [before EXCEPT ![items[n].id] = <<[gridRow |-> items[n].gridRow,
                                                     gridCol |-> items[n].gridCol]>>]
             ELSE before

\* loadSession returning completed sessions too
dontLoad_Never(data) == FALSE

\* if (data.completedAt) return null: completed sessions are not loaded
dontLoad(data) == data.completedAt # Null

\* loadSession refusing a session as soon as one id is missing
tooManyMissing_Any(resolved, persisted) == resolved < persisted

\* selectedCandidates.length < data.selectedIds.length * 0.9; the double product
\* compares as 10 * resolved < 9 * persisted does on the integers
tooManyMissing(resolved, persisted) == 10 * resolved < 9 * persisted

\* loadSession(allCandidates) ignoring the persisted grid
restoredGrid_Fresh(data) == initGrid

\* var grid = initGrid(); if (data.grid) { grid.cells = new Map(data.grid.cells); ... }
restoredGrid(data) ==
    [cells |-> data.grid.cells, availableCells |-> data.grid.availableCells]

\* loadSession(allCandidates), the caller taking the session it returns as its
\* current one; present is the set of ids of allCandidates
loadSession(present) ==
    /\ calls < callLimit
    /\ calls' = calls + 1
    /\ UNCHANGED <<callLimit, appVars>>
    /\ IF storageThrows' \/ storage = <<>>
       THEN /\ result' = [op |-> "loadSession", dataset |-> present, loaded |-> FALSE]
            /\ UNCHANGED <<sessionVars, records, storage>>
       ELSE LET data       == storage[1]
                resolvable == SelectSeq(data.selectedIds, LAMBDA id : id \in present)
                items      == SelectSeq(data.currentBatchData, LAMBDA item : item.id \in present)
            IN  IF dontLoad(data)
                THEN /\ result' = [op |-> "loadSession", dataset |-> present, loaded |-> FALSE]
                     /\ UNCHANGED <<sessionVars, records, storage>>
                ELSE IF tooManyMissing(Len(resolvable), Len(data.selectedIds))
                THEN /\ storage' = clearedSlot
                     /\ result' = [op |-> "loadSession", dataset |-> present, loaded |-> FALSE]
                     /\ UNCHANGED <<sessionVars, records>>
                ELSE /\ records' = written(records, data.currentBatchData,
                                           Len(data.currentBatchData), present)
                     /\ selectedCandidates' = resolvable
                     /\ selectedIds' = data.selectedIds
                     /\ batchSize' = data.batchSize
                     /\ currentBatchIndex' = data.currentBatchIndex
                     /\ currentBatchCandidates' =
                            [i \in 1..Len(items) |->
                                [ID_xA |-> items[i].id,
                                 gridRow |-> records'[items[i].id][1].gridRow,
                                 gridCol |-> records'[items[i].id][1].gridCol]]
                     /\ scores' = data.scores
                     /\ undecided' = data.undecided
                     /\ completedAt' = data.completedAt
                     /\ grid' = restoredGrid(data)
                     /\ config' = data.config
                     /\ UNCHANGED storage
                     /\ result' = [op |-> "loadSession", dataset |-> present, loaded |-> TRUE]

Next ==
    \/ \E id \in CandidateIds, s \in ScoreValues : storageWorks /\ scoreCandidate(id, s)
    \/ \E id \in CandidateIds : storageWorks /\ skipCandidate(id)
    \/ storageWorks /\ advanceToNextBatch
    \/ storageWorks /\ getNextBatchWithGridPositions
    \/ \E id \in CandidateIds : storageWorks /\ removeFromBatch(id)
    \/ \E id \in CandidateIds : storageWorks /\ replaceInGrid(id)
    \/ \E t \in {"root", "class"}, v \in AttributeValues, s \in MassScoreValues, all \in BOOLEAN :
          storageWorks /\ massScoreByAttribute(t, v, s, all)

Spec == Init /\ [][Next]_vars

-----------------------------------------------------------------------------
(* The grid allocator on its own: createGrid, then assign and release calls *)

GridAssign(id) ==
    /\ calls < MaxGridCalls
    /\ calls' = calls + 1
    /\ UNCHANGED <<callLimit, appVars>>
    /\ UNCHANGED records
    /\ \E a \in assignGridCell(id, grid) :
          /\ grid' = a.grid
          /\ result' = [op |-> "assignGridCell", id |-> id, cell |-> a.cell]
    /\ UNCHANGED <<selectedCandidates, selectedIds, batchSize, currentBatchIndex,
                   currentBatchCandidates, scores, undecided, completedAt, config,
                   storage, storageThrows>>

GridRelease(row, col) ==
    /\ calls < MaxGridCalls
    /\ calls' = calls + 1
    /\ UNCHANGED <<callLimit, appVars>>
    /\ UNCHANGED records
    /\ grid' = releaseGridCell(row, col, grid)
    /\ result' = [op |-> "releaseGridCell", row |-> row, col |-> col]
    /\ UNCHANGED <<selectedCandidates, selectedIds, batchSize, currentBatchIndex,
                   currentBatchCandidates, scores, undecided, completedAt, config,
                   storage, storageThrows>>

GridNext ==
    \/ \E id \in {"a"} : GridAssign(id)
    \/ \E row \in 0..(GRID_SIZE - 1), col \in 0..(GRID_SIZE - 1) : GridRelease(row, col)

GridSpec == Init /\ [][GridNext]_vars

-----------------------------------------------------------------------------
(* Sessions created, saved, loaded and cleared, on working storage *)

\* the options callers pass to createSession, merged over the defaults: four
\* records selected, one record selected, no record passing the group filter
PersistOptions ==
    { [DEFAULT_SESSION_OPTIONS EXCEPT !.batchSize = 2],
      [DEFAULT_SESSION_OPTIONS EXCEPT !.batchSize = 2, !.selectionCount = 1],
      [DEFAULT_SESSION_OPTIONS EXCEPT !.groupFilter = {"G3"}] }

\* the values Date.now() returns when createSession derives a seed from it
ClockValues == {1, 2}

\* the datasets loadSession is given, as the ids of their records: the dataset the
\* session was created from, and that dataset without record "e"
Datasets == { CandidateIds, CandidateIds \ {"e"} }

PersistNext ==
    \/ \E given \in PersistOptions, now \in ClockValues :
          storageWorks /\ createSessionOn(AllCandidates, given, now)
    \/ \E id \in {"a", "c"} : storageWorks /\ scoreCandidate(id, 1)
    \/ \E id \in {"b"} : storageWorks /\ skipCandidate(id)
    \/ storageWorks /\ getNextBatchWithGridPositions
    \/ \E t \in {"root", "class"}, v \in AttributeValues :
          storageWorks /\ massScoreByAttribute(t, v, 0, FALSE)
    \/ storageWorks /\ callSaveSession
    \/ storageWorks /\ clearSession
    \/ storageWorks /\ hasResumableSession
    \/ \E present \in Datasets : storageWorks /\ loadSession(present)

PersistSpec == Init /\ [][PersistNext]_vars

-----------------------------------------------------------------------------
(* Every operation, on storage that may throw during any call *)

\* calls explored on storage that may throw
MaxFaultCalls == 2

\* the options createSession is called with: one record selected, no record
\* passing the group filter
FaultOptions ==
    { [DEFAULT_SESSION_OPTIONS EXCEPT !.batchSize = 2, !.selectionCount = 1],
      [DEFAULT_SESSION_OPTIONS EXCEPT !.groupFilter = {"G3"}] }

FaultInit == createSession(2)

\* the storage throws during the call, or works
maybeThrows == calls < MaxFaultCalls /\ storageThrows' \in BOOLEAN

FaultNext ==
    \/ \E given \in FaultOptions : maybeThrows /\ createSessionOn(AllCandidates, given, DateNow)
    \/ \E id \in {"a"} : maybeThrows /\ scoreCandidate(id, 1)
    \/ \E id \in {"b"} : maybeThrows /\ skipCandidate(id)
    \/ maybeThrows /\ advanceToNextBatch
    \/ maybeThrows /\ getNextBatchWithGridPositions
    \/ \E id \in {"a"} : maybeThrows /\ removeFromBatch(id)
    \/ \E id \in {"a"} : maybeThrows /\ replaceInGrid(id)
    \/ \E v \in {"R1"} : maybeThrows /\ massScoreByAttribute("root", v, 0, FALSE)
    \/ maybeThrows /\ callSaveSession
    \/ maybeThrows /\ clearSession
    \/ maybeThrows /\ hasResumableSession
    \/ \E present \in {CandidateIds} : maybeThrows /\ loadSession(present)

FaultSpec == FaultInit /\ [][FaultNext]_vars

-----------------------------------------------------------------------------
(* A session over ten records, loaded against datasets that lost records *)

TenIds == <<"n0", "n1", "n2", "n3", "n4", "n5", "n6", "n7", "n8", "n9">>

\* ten named, unranked records of one group, scores 95 down to 50
TenCandidates ==
    [i \in 1..Len(TenIds) |->
        [ID_xA |-> TenIds[i], Node_xA |-> "Node", Group_xA |-> "G1", Rank_xB |-> Empty,
         AI_Rank_xB |-> 100 - 5 * i, Roots |-> <<"R1", "", "">>, Classes |-> <<"K1", "", "">>]]

\* the datasets loadSession is given: all ten records, nine of them (without a
\* record of the first batch, without the last record), eight of them
StaleDatasets ==
    { Range(TenIds), Range(TenIds) \ {"n0"}, Range(TenIds) \ {"n9"},
      Range(TenIds) \ {"n0", "n9"} }

StaleInit == created(TenCandidates, [DEFAULT_SESSION_OPTIONS EXCEPT !.batchSize = 2])

StaleNext ==
    \/ \E id \in {"n0", "n5"} : storageWorks /\ scoreCandidate(id, 1)
    \/ \E id \in {"n9"} : storageWorks /\ skipCandidate(id)
    \/ storageWorks /\ getNextBatchWithGridPositions
    \/ \E present \in StaleDatasets : storageWorks /\ loadSession(present)

StaleSpec == StaleInit /\ [][StaleNext]_vars

-----------------------------------------------------------------------------
(* Sessions created again and again, some by seeded random selection *)

\* the options callers pass to createSession, merged over the defaults: the
\* default top-ai order, and random selection with no seed, seed 0 and seed 7
CreateOptions ==
    { [DEFAULT_SESSION_OPTIONS EXCEPT !.batchSize = 2],
      [DEFAULT_SESSION_OPTIONS EXCEPT !.selectionMethod = "random"],
      [DEFAULT_SESSION_OPTIONS EXCEPT !.selectionMethod = "random", !.randomSeed = <<0>>],
      [DEFAULT_SESSION_OPTIONS EXCEPT !.selectionMethod = "random", !.randomSeed = <<7>>] }

CreateNext ==
    \/ \E given \in CreateOptions, now \in ClockValues :
          storageWorks /\ createSessionOn(AllCandidates, given, now)
    \/ \E id \in {"a", "c"} : storageWorks /\ scoreCandidate(id, 1)
    \/ \E id \in {"b"} : storageWorks /\ skipCandidate(id)

CreateSpec == Init /\ [][CreateNext]_vars

-----------------------------------------------------------------------------
(* The eligible-count preview next to createSession *)

\* countEligibleCandidates(allCandidates, options): the four filter stages, then length
countEligibleCandidates(allCandidates, options) ==
    Len(applyAIScoreThreshold(
            applyRankFilter(
                applyGroupFilter(SelectSeq(allCandidates, HasName), options.groupFilter),
                options.rankFilter),
            options.aiScoreThreshold))

\* evaluation.countEligible(nodes, filters): the object literal defines the key
\* twice and the later definition is the one the object keeps; it reads
\* filters.aiScoreRange and no other score field
countEligible(allNodes, filters) ==
    countEligibleCandidates(allNodes,
        [rankFilter |-> filters.rankFilter,
         aiScoreThreshold |->
            [min |-> IF "aiScoreRange" \in DOMAIN filters THEN filters.aiScoreRange[1] ELSE 0,
             max |-> IF "aiScoreRange" \in DOMAIN filters THEN filters.aiScoreRange[2] ELSE 100],
         groupFilter |-> filters.groupFilter])

\* the criteria the launcher passes: { rankFilter, aiScoreThreshold: {min, max}, groupFilter }
CountCriteria ==
    [rankFilter : {"unranked", "ranked", "all"},
     aiScoreThreshold : {[min |-> 0, max |-> 100], [min |-> 50, max |-> 100],
                         [min |-> 0, max |-> 60]},
     groupFilter : {{}, {"G1"}, {"G2"}, {"G3"}}]

\* the record collections counted
CountCollections == {AllCandidates, TenCandidates}

countEligibleCall(allNodes, filters) ==
    /\ calls < callLimit
    /\ calls' = calls + 1
    /\ UNCHANGED <<callLimit, appVars>>
    /\ UNCHANGED <<sessionVars, storage, records>>
    /\ result' = [op |-> "countEligible", nodes |-> allNodes, filters |-> filters,
                  count |-> countEligible(allNodes, filters)]

CountNext ==
    \/ \E allNodes \in CountCollections, filters \in CountCriteria :
          storageWorks /\ countEligibleCall(allNodes, filters)
    \/ \E filters \in CountCriteria :
          /\ storageWorks
          /\ createSessionOn(AllCandidates,
                             [DEFAULT_SESSION_OPTIONS EXCEPT
                                 !.rankFilter = filters.rankFilter,
                                 !.aiScoreThreshold = filters.aiScoreThreshold,
                                 !.groupFilter = filters.groupFilter], DateNow)

CountSpec == Init /\ [][CountNext]_vars

-----------------------------------------------------------------------------
(* Sessions over a collection with more eligible records than the default count *)

\* fifty-one named, unranked records of one group, scores 99 down to 49
ManyCandidates ==
    [i \in 1..51 |->
        [ID_xA |-> ToString(i), Node_xA |-> "Node", Group_xA |-> "G1", Rank_xB |-> Empty,
         AI_Rank_xB |-> 100 - i, Roots |-> <<"R1", "", "">>, Classes |-> <<"K1", "", "">>]]

\* the options objects createSession is called with: no selection count (as the
\* launcher's handleStart builds them), a count of 3, a count of 60
ManyOptions ==
    { [batchSize |-> 2],
      [batchSize |-> 2, selectionCount |-> 3],
      [batchSize |-> 2, selectionCount |-> 60] }

ManyInit == created(ManyCandidates, merged([batchSize |-> 2, selectionCount |-> 3]))

ManyNext ==
    \/ \E given \in ManyOptions : storageWorks /\ createSessionOn(ManyCandidates, given, DateNow)
    \/ \E id \in {"1", "2"} : storageWorks /\ scoreCandidate(id, 1)
    \/ \E id \in {"3"} : storageWorks /\ skipCandidate(id)
    \/ storageWorks /\ advanceToNextBatch
    \/ storageWorks /\ getNextBatchWithGridPositions
    \/ \E id \in {"1"} : storageWorks /\ removeFromBatch(id)
    \/ \E id \in {"1"} : storageWorks /\ replaceInGrid(id)

ManySpec == ManyInit /\ [][ManyNext]_vars

-----------------------------------------------------------------------------
(* Waves of the default batch size over a collection that loses records *)

WaveInit == created(TenCandidates, DEFAULT_SESSION_OPTIONS)

WaveNext ==
    \/ \E id \in {"n0", "n5"} : storageWorks /\ scoreCandidate(id, 1)
    \/ \E id \in {"n9", "n1"} : storageWorks /\ skipCandidate(id)
    \/ storageWorks /\ advanceToNextBatch
    \/ \E present \in StaleDatasets : storageWorks /\ loadSession(present)

WaveSpec == WaveInit /\ [][WaveNext]_vars

-----------------------------------------------------------------------------
(* Waves requested after cells were backfilled *)

\* engine calls explored after createSession in the backfill behaviours
MaxBackfillCalls == 5

BackfillInit ==
    createdWithin(AllCandidates, [DEFAULT_SESSION_OPTIONS EXCEPT !.batchSize = 4],
                  MaxBackfillCalls)

BackfillNext ==
    \/ storageWorks /\ getNextBatchWithGridPositions
    \/ \E id \in {"a"} : storageWorks /\ removeFromBatch(id)
    \/ \E id \in {"a"} : storageWorks /\ replaceInGrid(id)
    \/ \E v \in {"R2"} : storageWorks /\ massScoreByAttribute("root", v, 0, FALSE)

BackfillSpec == BackfillInit /\ [][BackfillNext]_vars

-----------------------------------------------------------------------------
(* SnapshotHistory: the undo history of the App component *)

MAX_MEMORY_BYTES == 10485760

\* rough size of an array of records
estimateSize(ns) == Len(ns) * 200

\* stateChanged(a, b): lengths, then up to five sampled records, then the whole
\* arrays when they hold at most 50 records
stateChanged(a, b) ==
    \/ Len(a) # Len(b)
    \/ LET sampleSize == Min(5, Len(a))
       IN  \E i \in 0..(sampleSize - 1) :
              a[((i * Len(a)) \div sampleSize) + 1] # b[((i * Len(a)) \div sampleSize) + 1]
    \/ Len(a) <= 50 /\ a # b

getAdaptiveLimit(nodeCount, maxHistory) ==
    IF nodeCount > 500 THEN 20
    ELSE IF nodeCount > 200 THEN 30
    ELSE IF nodeCount > 100 THEN 40
    ELSE maxHistory

\* while (history.length > adaptiveLimit) { history.shift(); currentIndex-- }
RECURSIVE trimToLimit(_, _)
trimToLimit(h, limit) ==
    IF Len(h.history) > limit
    THEN trimToLimit([history |-> Tail(h.history), currentIndex |-> h.currentIndex - 1], limit)
    ELSE h

RECURSIVE totalSize(_)
totalSize(snapshots) ==
    IF snapshots = <<>> THEN 0 ELSE estimateSize(Head(snapshots)) + totalSize(Tail(snapshots))

\* while (totalSize > maxMemoryBytes && history.length > 1) { history.shift(); currentIndex-- }
RECURSIVE trimToMemory(_)
trimToMemory(h) ==
    IF totalSize(h.history) > MAX_MEMORY_BYTES /\ Len(h.history) > 1
    THEN trimToMemory([history |-> Tail(h.history), currentIndex |-> h.currentIndex - 1])
    ELSE h

\* the SnapshotHistory object of historyRef.current
historyRef == [history |-> history, currentIndex |-> currentIndex]

\* push(nodes): skipped when the array equals the current snapshot; otherwise the
\* redo part is dropped and a copy becomes the top
push(h, ns) ==
    IF h.currentIndex >= 0 /\ ~stateChanged(ns, h.history[h.currentIndex + 1])
    THEN h
    ELSE trimToMemory(trimToLimit([history |-> Append(SubSeq(h.history, 1, h.currentIndex + 1), ns),
                                   currentIndex |-> h.currentIndex + 1],
                                  getAdaptiveLimit(Len(ns), 50)))

historyCanUndo(h) == h.currentIndex > 0

historyCanRedo(h) == h.currentIndex < Len(h.history) - 1

\* undo(): [h, value], value <<>> for null and <<array>> otherwise
undo(h) ==
    IF ~historyCanUndo(h) THEN [h |-> h, value |-> <<>>]
    ELSE [h |-> [h EXCEPT !.currentIndex = h.currentIndex - 1],
          value |-> <<h.history[h.currentIndex]>>]

\* redo(): [h, value]
redo(h) ==
    IF ~historyCanRedo(h) THEN [h |-> h, value |-> <<>>]
    ELSE [h |-> [h EXCEPT !.currentIndex = h.currentIndex + 1],
          value |-> <<h.history[h.currentIndex + 2]>>]

-----------------------------------------------------------------------------
(* The App component: records, grid scores and the wave flow *)

\* user events explored after the file was loaded
MaxEvents == 4

\* the records of the loaded file, ids made of group, '-' and name: two unranked
\* records and a ranked one
LoadedNodes ==
    << [ID_xA |-> "G1-Alpha", Node_xA |-> "Alpha", Group_xA |-> "G1", Rank_xB |-> Empty,
        AI_Rank_xB |-> 90, Roots |-> <<"R1", "", "">>, Classes |-> <<"K1", "", "">>,
        Linked_Node_ID_xA |-> ""],
       [ID_xA |-> "G1-Beta", Node_xA |-> "Beta", Group_xA |-> "G1", Rank_xB |-> Empty,
        AI_Rank_xB |-> 50, Roots |-> <<"R2", "", "">>, Classes |-> <<"K2", "", "">>,
        Linked_Node_ID_xA |-> "G1-Alpha"],
       [ID_xA |-> "G2 T2-Gamma", Node_xA |-> "Gamma", Group_xA |-> "G2 T2", Rank_xB |-> 2,
        AI_Rank_xB |-> 70, Roots |-> <<"R1", "", "">>, Classes |-> <<"K1", "", "">>,
        Linked_Node_ID_xA |-> ""] >>

\* the record handleAddNode appends
NewNode ==
    [ID_xA |-> "G1-New", Node_xA |-> "New", Group_xA |-> "G1", Rank_xB |-> Empty,
     AI_Rank_xB |-> Empty, Roots |-> <<"", "", "">>, Classes |-> <<"", "", "">>,
     Linked_Node_ID_xA |-> ""]

\* the scores of the card buttons
CardScores == {0, 2}

\* gridFilters, locked while an evaluation runs
gridFilters == [rankFilter |-> "unranked"]

RatingSuffixes == {" T1", " T2", " T3", " Blocked"}

EndsWith(str, suffix) ==
    Len(str) >= Len(suffix) /\ SubSeq(str, Len(str) - Len(suffix) + 1, Len(str)) = suffix

\* group.replace(/\s+(T[123]|Blocked)$/i, ''), for suffixes after one space
getBaseGroup(group) ==
    IF \E suffix \in RatingSuffixes : EndsWith(group, suffix)
    THEN LET suffix == CHOOSE x \in RatingSuffixes : EndsWith(group, x)
         IN  SubSeq(group, 1, Len(group) - Len(suffix))
    ELSE group

getGroupWithRating(baseGroup, score) ==
    IF baseGroup = "" THEN baseGroup
    ELSE CASE score = 0 -> baseGroup \o " Blocked"
           [] score = 1 -> baseGroup \o " T1"
           [] score = 2 -> baseGroup \o " T2"
           [] score = 3 -> baseGroup \o " T3"
           [] OTHER     -> baseGroup

\* updateNodeGroupAndId(nodes, nodeId, newScore): the record gets its rank, its
\* group with the rating suffix and the id made of both; links to it follow
updateNodeGroupAndId(ns, nodeId, newScore) ==
    IF ~\E i \in 1..Len(ns) : ns[i].ID_xA = nodeId THEN ns
    ELSE LET targetNode == ns[CHOOSE i \in 1..Len(ns) :
                                 /\ ns[i].ID_xA = nodeId
                                 /\ \A j \in 1..(i - 1) : ns[j].ID_xA # nodeId]
             newGroup   == getGroupWithRating(getBaseGroup(targetNode.Group_xA), newScore)
             newId      == newGroup \o "-" \o targetNode.Node_xA
         IN  [i \in 1..Len(ns) |->
                 IF ns[i].ID_xA = nodeId
                 THEN [ns[i] EXCEPT !.Group_xA = newGroup, !.ID_xA = newId, !.Rank_xB = newScore]
                 ELSE IF ns[i].Linked_Node_ID_xA = nodeId
                      THEN [ns[i] EXCEPT !.Linked_Node_ID_xA = newId]
                      ELSE ns[i]]

\* getFilteredBatch(nodes, filters, currentBatchIds, grid, batchSize): every
\* outcome [batch, grid]
getFilteredBatch(ns, filters, currentBatchIds, g, size) ==
    LET options  == [selectionCount |-> 9999,
                     rankFilter |-> IF "rankFilter" \in DOMAIN filters
                                    THEN filters.rankFilter ELSE "unranked",
                     aiScoreThreshold |->
                        [min |-> IF "aiScoreRange" \in DOMAIN filters
                                 THEN filters.aiScoreRange[1] ELSE 0,
                         max |-> IF "aiScoreRange" \in DOMAIN filters
                                 THEN filters.aiScoreRange[2] ELSE 100],
                     groupFilter |-> IF "groupFilter" \in DOMAIN filters
                                     THEN filters.groupFilter ELSE {},
                     selectionMethod |-> IF "selectionMethod" \in DOMAIN filters
                                         THEN filters.selectionMethod ELSE "top-ai",
                     randomSeed |-> <<DateNow>>]
        eligible == filterCandidates(ns, options)
        shown    == SelectSeq([i \in 1..Len(eligible) |-> eligible[i].ID_xA],
                              LAMBDA id : id \notin currentBatchIds)
    IN  assignAll(SubSeq(shown, 1, Min(size, Len(shown))), g)

\* the App component after a file with the records was loaded
loaded(ns) ==
    /\ nodes = ns
    /\ nodesRef = ns
    /\ isEvalSession = FALSE
    /\ gridEvalBatch = <<>>
    /\ gridEvalBatchRef = <<>>
    /\ gridEvalExitingIds = {}
    /\ gridEvalAllDone = FALSE
    /\ gridEvalGridRef = <<>>
    /\ timers = <<>>
    /\ evalStarted = 0
    /\ history = << <<>>, ns >>
    /\ currentIndex = 1
    /\ canUndo = TRUE
    /\ canRedo = FALSE

\* no evaluation session of the engine exists
noSession ==
    /\ selectedCandidates = <<>>
    /\ selectedIds = <<>>
    /\ batchSize = 9
    /\ currentBatchIndex = 0
    /\ currentBatchCandidates = <<>>
    /\ scores = <<>>
    /\ undecided = {}
    /\ completedAt = Null
    /\ grid = initGrid
    /\ config = configOf(DEFAULT_SESSION_OPTIONS)
    /\ storage = <<>>
    /\ storageThrows = FALSE
    /\ records = <<>>

engineVars == <<sessionVars, storage, storageThrows, records>>

\* a click or key press: React has run the pending effects before it dispatches it
userEvent ==
    /\ calls < callLimit
    /\ calls' = calls + 1
    /\ nodesRef = nodes
    /\ gridEvalBatchRef = gridEvalBatch
    /\ UNCHANGED <<callLimit, engineVars>>

\* a timer callback or an effect
callback == UNCHANGED <<calls, callLimit, engineVars>>

\* the cards the user can press: in an evaluation the cards of the wave that are
\* not fading out, otherwise the cards of the records
pressable ==
    IF isEvalSession
    THEN IF gridEvalAllDone THEN {}
         ELSE { gridEvalBatch[i].ID_xA : i \in 1..Len(gridEvalBatch) } \ gridEvalExitingIds
    ELSE { nodes[i].ID_xA : i \in 1..Len(nodes) }

\* the timer a card's handler schedules: the departing copy found in the ref, as
\* <<>> or <<copy>>
fadeTimer(candidateId) ==
    LET i == findInBatch(gridEvalBatchRef, candidateId)
    IN  [kind |-> "fade", id |-> candidateId,
         departing |-> IF i = 0 THEN <<>> ELSE <<gridEvalBatchRef[i]>>,
         session |-> evalStarted]

\* what handleGridScore and handleGridSkip share: the array is pushed on the
\* history, the record updated and, in an evaluation, the fade-out scheduled
gridRate(candidateId, score) ==
    LET pushed == push(historyRef, nodes)
    IN  /\ history' = pushed.history
        /\ currentIndex' = pushed.currentIndex
        /\ canUndo' = TRUE
        /\ canRedo' = FALSE
        /\ nodes' = updateNodeGroupAndId(nodes, candidateId, score)
        /\ IF ~isEvalSession
           THEN UNCHANGED <<gridEvalExitingIds, timers>>
           ELSE /\ gridEvalExitingIds' = gridEvalExitingIds \cup {candidateId}
                /\ timers' = Append(timers, fadeTimer(candidateId))
        /\ UNCHANGED <<nodesRef, isEvalSession, gridEvalBatch, gridEvalBatchRef,
                       gridEvalAllDone, gridEvalGridRef, evalStarted>>

handleGridScore(candidateId, score) ==
    /\ candidateId \in pressable
    /\ gridRate(candidateId, score)
    /\ result' = [op |-> "handleGridScore", id |-> candidateId, score |-> score,
                  before |-> nodes,
                  wasTop |-> currentIndex >= 0 /\ history[currentIndex + 1] = nodes]

handleGridSkip(candidateId) ==
    /\ candidateId \in pressable
    /\ gridRate(candidateId, Empty)
    /\ result' = [op |-> "handleGridSkip", id |-> candidateId, score |-> Empty,
                  before |-> nodes,
                  wasTop |-> currentIndex >= 0 /\ history[currentIndex + 1] = nodes]

\* the fade-out callback of handleGridScore and handleGridSkip, for timer k
fadeOut(k) ==
    LET t        == timers[k]
        newBatch == withoutId(gridEvalBatchRef, t.id)
        rest     == RemoveAt(timers, k)
    IN  /\ t.kind = "fade"
        /\ gridEvalGridRef' =
              IF t.departing # <<>> /\ t.departing[1].gridRow # Undefined /\ gridEvalGridRef # <<>>
              THEN <<releaseGridCell(t.departing[1].gridRow, t.departing[1].gridCol,
                                     gridEvalGridRef[1])>>
              ELSE gridEvalGridRef
        /\ gridEvalExitingIds' = gridEvalExitingIds \ {t.id}
        /\ gridEvalBatch' = newBatch
        /\ timers' = IF newBatch = <<>>
                     THEN Append(rest, [kind |-> "pause", id |-> "", departing |-> <<>>,
                                        session |-> t.session])
                     ELSE rest
        /\ UNCHANGED <<nodes, nodesRef, isEvalSession, gridEvalBatchRef, gridEvalAllDone,
                       evalStarted, history, currentIndex, canUndo, canRedo>>
        /\ result' = [op |-> "fadeOut", timer |-> t]

\* the callback run after the pause: a fresh grid and the next wave, or All Done
nextWave(k) ==
    LET t    == timers[k]
        rest == RemoveAt(timers, k)
    IN  /\ t.kind = "pause"
        /\ \E out \in getFilteredBatch(nodesRef, gridFilters, {}, initGrid, 6) :
              /\ gridEvalGridRef' = <<out.grid>>
              /\ IF out.batch # <<>>
                 THEN /\ gridEvalBatch' = out.batch
                      /\ timers' = rest
                      /\ UNCHANGED gridEvalAllDone
                 ELSE /\ gridEvalAllDone' = TRUE
                      /\ timers' = Append(rest, [kind |-> "exit", id |-> "", departing |-> <<>>,
                                                 session |-> t.session])
                      /\ UNCHANGED gridEvalBatch
        /\ UNCHANGED <<nodes, nodesRef, isEvalSession, gridEvalBatchRef, gridEvalExitingIds,
                       evalStarted, history, currentIndex, canUndo, canRedo>>
        /\ result' = [op |-> "nextWave", timer |-> t]

\* the callback that leaves the evaluation after All Done was shown
autoExit(k) ==
    /\ timers[k].kind = "exit"
    /\ isEvalSession' = FALSE
    /\ gridEvalBatch' = <<>>
    /\ gridEvalExitingIds' = {}
    /\ gridEvalAllDone' = FALSE
    /\ gridEvalGridRef' = <<>>
    /\ timers' = RemoveAt(timers, k)
    /\ UNCHANGED <<nodes, nodesRef, gridEvalBatchRef, evalStarted, history, currentIndex,
                   canUndo, canRedo>>
    /\ result' = [op |-> "autoExit", timer |-> timers[k]]

handleStartGridEval ==
    /\ ~isEvalSession
    /\ \E out \in getFilteredBatch(nodes, gridFilters, {}, initGrid, 6) :
          /\ gridEvalGridRef' = <<out.grid>>
          /\ gridEvalBatch' = out.batch
    /\ gridEvalExitingIds' = {}
    /\ gridEvalAllDone' = FALSE
    /\ isEvalSession' = TRUE
    /\ evalStarted' = evalStarted + 1
    /\ UNCHANGED <<nodes, nodesRef, gridEvalBatchRef, timers, history, currentIndex,
                   canUndo, canRedo>>
    /\ result' = [op |-> "handleStartGridEval"]

handleExitGridEval ==
    /\ isEvalSession
    /\ isEvalSession' = FALSE
    /\ gridEvalBatch' = <<>>
    /\ gridEvalExitingIds' = {}
    /\ gridEvalAllDone' = FALSE
    /\ gridEvalGridRef' = <<>>
    /\ UNCHANGED <<nodes, nodesRef, gridEvalBatchRef, timers, evalStarted, history,
                   currentIndex, canUndo, canRedo>>
    /\ result' = [op |-> "handleExitGridEval"]

\* useEffect(() => { gridEvalBatchRef.current = gridEvalBatch }, [gridEvalBatch])
syncBatchRef ==
    /\ gridEvalBatchRef # gridEvalBatch
    /\ gridEvalBatchRef' = gridEvalBatch
    /\ UNCHANGED <<nodes, nodesRef, isEvalSession, gridEvalBatch, gridEvalExitingIds,
                   gridEvalAllDone, gridEvalGridRef, timers, evalStarted, history,
                   currentIndex, canUndo, canRedo>>
    /\ result' = [op |-> "useEffect", ref |-> "gridEvalBatchRef"]

\* useEffect(() => { nodesRef.current = nodes }, [nodes])
syncNodesRef ==
    /\ nodesRef # nodes
    /\ nodesRef' = nodes
    /\ UNCHANGED <<nodes, isEvalSession, gridEvalBatch, gridEvalBatchRef, gridEvalExitingIds,
                   gridEvalAllDone, gridEvalGridRef, timers, evalStarted, history,
                   currentIndex, canUndo, canRedo>>
    /\ result' = [op |-> "useEffect", ref |-> "nodesRef"]

\* an edit of the table, here handleAddNode: the new array is set and saved
handleAddNode ==
    LET newNodes == Append(nodes, NewNode)
        pushed   == push(historyRef, newNodes)
    IN  /\ nodes' = newNodes
        /\ history' = pushed.history
        /\ currentIndex' = pushed.currentIndex
        /\ canUndo' = historyCanUndo(pushed)
        /\ canRedo' = historyCanRedo(pushed)
        /\ UNCHANGED <<nodesRef, isEvalSession, gridEvalBatch, gridEvalBatchRef,
                       gridEvalExitingIds, gridEvalAllDone, gridEvalGridRef, timers,
                       evalStarted>>
        /\ result' = [op |-> "handleAddNode"]

handleUndo ==
    LET undone == undo(historyRef)
    IN  /\ history' = undone.h.history
        /\ currentIndex' = undone.h.currentIndex
        /\ IF undone.value # <<>>
           THEN /\ nodes' = undone.value[1]
                /\ canUndo' = historyCanUndo(undone.h)
                /\ canRedo' = historyCanRedo(undone.h)
           ELSE UNCHANGED <<nodes, canUndo, canRedo>>
        /\ UNCHANGED <<nodesRef, isEvalSession, gridEvalBatch, gridEvalBatchRef,
                       gridEvalExitingIds, gridEvalAllDone, gridEvalGridRef, timers,
                       evalStarted>>
        /\ result' = [op |-> "handleUndo", restored |-> undone.value]

handleRedo ==
    LET redone == redo(historyRef)
    IN  /\ history' = redone.h.history
        /\ currentIndex' = redone.h.currentIndex
        /\ IF redone.value # <<>>
           THEN /\ nodes' = redone.value[1]
                /\ canUndo' = historyCanUndo(redone.h)
                /\ canRedo' = historyCanRedo(redone.h)
           ELSE UNCHANGED <<nodes, canUndo, canRedo>>
        /\ UNCHANGED <<nodesRef, isEvalSession, gridEvalBatch, gridEvalBatchRef,
                       gridEvalExitingIds, gridEvalAllDone, gridEvalGridRef, timers,
                       evalStarted>>
        /\ result' = [op |-> "handleRedo", restored |-> redone.value]

AppInit ==
    /\ loaded(LoadedNodes)
    /\ noSession
    /\ result = [op |-> "loadFile"]
    /\ calls = 0
    /\ callLimit = MaxEvents

\* the wave flow: the evaluation started and left, cards scored and skipped, the
\* timers and the effects in every order
EvalNext ==
    \/ userEvent /\ handleStartGridEval
    \/ userEvent /\ handleExitGridEval
    \/ \E id \in pressable, score \in CardScores : userEvent /\ handleGridScore(id, score)
    \/ \E id \in pressable : userEvent /\ handleGridSkip(id)
    \/ \E k \in 1..Len(timers) : callback /\ fadeOut(k)
    \/ \E k \in 1..Len(timers) : callback /\ nextWave(k)
    \/ \E k \in 1..Len(timers) : callback /\ autoExit(k)
    \/ callback /\ syncBatchRef
    \/ callback /\ syncNodesRef

EvalSpec == AppInit /\ [][EvalNext]_vars

\* a click on a card in the behaviours that are not cut short
press ==
    /\ nodesRef = nodes
    /\ gridEvalBatchRef = gridEvalBatch
    /\ UNCHANGED <<calls, callLimit, engineVars>>

\* the wave flow run to its end: one evaluation is started over the loaded file
\* and never left by hand; only the cards of its waves are rated
FlowNext ==
    \/ evalStarted = 0 /\ press /\ handleStartGridEval
    \/ \E id \in pressable, score \in CardScores :
          isEvalSession /\ press /\ handleGridScore(id, score)
    \/ \E id \in pressable : isEvalSession /\ press /\ handleGridSkip(id)
    \/ \E k \in 1..Len(timers) : callback /\ fadeOut(k)
    \/ \E k \in 1..Len(timers) : callback /\ nextWave(k)
    \/ \E k \in 1..Len(timers) : callback /\ autoExit(k)
    \/ callback /\ syncBatchRef
    \/ callback /\ syncNodesRef

\* the user rates a card whenever cards are shown; every timer fires; every
\* effect runs
FlowFairness ==
    /\ WF_vars(evalStarted = 0 /\ press /\ handleStartGridEval)
    /\ SF_vars(\E id \in pressable :
                  /\ isEvalSession
                  /\ press
                  /\ (handleGridSkip(id) \/ \E score \in CardScores : handleGridScore(id, score)))
    /\ WF_vars(\E k \in 1..Len(timers) : callback /\ fadeOut(k))
    /\ WF_vars(\E k \in 1..Len(timers) : callback /\ nextWave(k))
    /\ WF_vars(\E k \in 1..Len(timers) : callback /\ autoExit(k))
    /\ WF_vars(callback /\ syncBatchRef)
    /\ WF_vars(callback /\ syncNodesRef)

FlowSpec == AppInit /\ [][FlowNext]_vars /\ FlowFairness

\* the table and the cards outside an evaluation: edits, grid scores, undo, redo
HistoryNext ==
    \/ userEvent /\ handleAddNode
    \/ \E id \in pressable, score \in CardScores : userEvent /\ handleGridScore(id, score)
    \/ \E id \in pressable : userEvent /\ handleGridSkip(id)
    \/ userEvent /\ handleUndo
    \/ userEvent /\ handleRedo
    \/ callback /\ syncNodesRef

HistorySpec == AppInit /\ [][HistoryNext]_vars

-----------------------------------------------------------------------------
(* Properties *)

AllCoordinates ==
    { [row |-> r, col |-> c] : r \in 0..(GRID_SIZE - 1), c \in 0..(GRID_SIZE - 1) }

\* how often a coordinate occurs among the keys of cells and in availableCells
occurrences(g, coord) ==
    Cardinality({ i \in 1..Len(g.cells) : g.cells[i].key = cellKey(coord.row, coord.col) })
    + Cardinality({ i \in 1..Len(g.availableCells) : g.availableCells[i] = coord })

partitions(g) == \A coord \in AllCoordinates : occurrences(g, coord) = 1

processed == DOMAIN scores \cup undecided

\* C1: in every state of a session the keys of grid.cells and the entries of
\* grid.availableCells partition the 3x3 coordinate space: each of the 9
\* coordinates is in exactly one of the two, and availableCells holds none twice.
C1_GridPartition == partitions(grid)

\* C2: no record id is both a key of scores and a member of undecided.
C2_ScoredXorUndecided == DOMAIN scores \cap undecided = {}

\* C3: whenever completedAt is non-null, every selected record is a key of scores
\* or a member of undecided.
C3_CompletedMeansAllProcessed ==
    completedAt # Null => \A id \in Range(selectedCandidates) : id \in processed

\* C4: once completedAt is set, a scoreCandidate or skipCandidate call neither
\* sets it back to null nor adds a key to scores or a member to undecided.
C4_CompletedIsTerminal ==
    [][ (completedAt # Null /\ result'.op \in {"scoreCandidate", "skipCandidate"})
        => /\ completedAt' # Null
           /\ DOMAIN scores' \subseteq DOMAIN scores
           /\ undecided' \subseteq undecided ]_vars

\* C5: every record of the current batch is a selected record and is neither in
\* scores nor in undecided, at every point between operations.
C5_BatchIsUnprocessed ==
    \A i \in 1..Len(currentBatchCandidates) :
        /\ currentBatchCandidates[i].ID_xA \in Range(selectedCandidates)
        /\ currentBatchCandidates[i].ID_xA \notin processed

\* C6: on a grid made by initGrid, after any assignGridCell and releaseGridCell
\* calls each of the 9 coordinates occurs exactly once among the keys of cells
\* and availableCells; assignGridCell with no free coordinate returns null and
\* leaves the grid unchanged; releaseGridCell of a free coordinate leaves the
\* grid unchanged.
C6_AllocatorPartition ==
    /\ partitions(grid)
    /\ [][ /\ partitions(grid')
           /\ (result'.op = "assignGridCell" /\ Len(grid.availableCells) = 0)
                 => (result'.cell = NoCell /\ grid' = grid)
           /\ (result'.op = "assignGridCell" /\ Len(grid.availableCells) > 0)
                 => /\ result'.cell \in Range(grid.availableCells)
                    /\ cellsGet(grid'.cells, cellKey(result'.cell.row, result'.cell.col))
                          = result'.id
           /\ (result'.op = "releaseGridCell"
                  /\ ~cellsHas(grid.cells, cellKey(result'.row, result'.col)))
                 => grid' = grid ]_vars

\* C6 witness: the grid is full and an assignGridCell call has returned null
C6_Witness ==
    /\ result.op = "assignGridCell"
    /\ result.cell = NoCell
    /\ Len(grid.cells) = GRID_SIZE * GRID_SIZE

\* C7: scoreCandidate on an id that is already a key of scores returns success
\* false and leaves scores, undecided, completedAt, the grid, the current batch
\* and the persisted snapshot unchanged.
C7_RescoreRejected ==
    [][ (result'.op = "scoreCandidate" /\ result'.id \in DOMAIN scores)
        => /\ result'.success = FALSE
           /\ scores' = scores
           /\ undecided' = undecided
           /\ completedAt' = completedAt
           /\ grid' = grid
           /\ currentBatchCandidates' = currentBatchCandidates
           /\ storage' = storage ]_vars

\* C7 witness: a scoreCandidate call on a scored id, with another score, was rejected
C7_Witness ==
    /\ result.op = "scoreCandidate"
    /\ result.success = FALSE
    /\ result.id \in DOMAIN scores
    /\ scores[result.id].score # result.score

\* C8: a successful scoreCandidate stores the score with waveNumber =
\* currentBatchIndex + 1; scoreCandidate and skipCandidate return
\* evaluationComplete exactly when scores.size + undecided.size >=
\* selectedCandidates.length after the update, and set and persist completedAt
\* exactly in that case.
C8_ScoreAndCompletion ==
    [][ (result'.op \in {"scoreCandidate", "skipCandidate"} /\ result'.success)
        => /\ result'.op = "scoreCandidate"
                => /\ result'.id \in DOMAIN scores'
                   /\ scores'[result'.id].score = result'.score
                   /\ scores'[result'.id].waveNumber = currentBatchIndex + 1
           /\ result'.op = "skipCandidate" => result'.id \in undecided'
           /\ result'.evaluationComplete
                 <=> (Cardinality(DOMAIN scores') + Cardinality(undecided')
                         >= Len(selectedCandidates'))
           /\ result'.evaluationComplete
                 => (completedAt' # Null /\ storage' # <<>>
                        /\ storage'[1].completedAt = completedAt')
           /\ ~result'.evaluationComplete => completedAt' = completedAt ]_vars

\* C8 witness: a score given in wave 2 completed the evaluation
C8_Witness ==
    /\ result.op = "scoreCandidate"
    /\ result.success
    /\ result.evaluationComplete
    /\ currentBatchIndex = 1
    /\ scores[result.id].waveNumber = 2
    /\ completedAt # Null

\* the ids of the dataset records whose root (or class) slot 1, 2 or 3 is the value
matchingIds(attributeType, attributeValue) ==
    { AllCandidates[i].ID_xA : i \in { k \in 1..Len(AllCandidates) :
          matchesAttribute(AllCandidates[k], attributeType, attributeValue) } }

matchingCount(attributeType, attributeValue) ==
    Cardinality({ k \in 1..Len(AllCandidates) :
                    matchesAttribute(AllCandidates[k], attributeType, attributeValue) })

\* C9: massScoreByAttribute over the full dataset returns affected =
\* scoredIds.length = the number of dataset records whose slot equals the value,
\* selected or not; afterwards each of them is in scores with the given score
\* and the mass-scored flag, scored ids are overwritten, scores.size has grown by
\* affected - reScored, and no other entry of scores has changed.
C9_MassScore ==
    [][ (result'.op = "massScoreByAttribute" /\ result'.useAllNodes)
        => LET ids == matchingIds(result'.attributeType, result'.attributeValue)
           IN  /\ result'.affected = matchingCount(result'.attributeType,
                                                   result'.attributeValue)
               /\ Len(result'.scoredIds) = result'.affected
               /\ Range(result'.scoredIds) = ids
               /\ DOMAIN scores' = DOMAIN scores \cup ids
               /\ \A id \in ids : /\ scores'[id].score = result'.score
                                  /\ scores'[id].massScored
               /\ \A id \in DOMAIN scores \ ids : scores'[id] = scores[id]
               /\ result'.reScored = Cardinality(ids \cap DOMAIN scores)
               /\ Cardinality(DOMAIN scores')
                     = Cardinality(DOMAIN scores) + result'.affected - result'.reScored ]_vars

\* C9 witness: a mass score that re-scored a record and scored one outside the
\* selected records
C9_Witness ==
    /\ result.op = "massScoreByAttribute"
    /\ result.useAllNodes
    /\ result.reScored > 0
    /\ result.affected > result.reScored
    /\ \E id \in Range(result.scoredIds) : id \notin Range(selectedCandidates)

\* C10: getNextBatchWithGridPositions returns the first min(batchSize, number
\* of unprocessed records) unprocessed selected records in selected order, and
\* every returned record carries a coordinate that grid.cells binds to its id.
C10_NextBatchPlaced ==
    result.op = "getNextBatchWithGridPositions"
    => /\ [i \in 1..Len(result.batch) |-> result.batch[i].ID_xA]
             = SubSeq(unprocessed, 1, Min(batchSize, Len(unprocessed)))
       /\ \A i \in 1..Len(result.batch) :
             /\ result.batch[i].gridRow # Undefined
             /\ result.batch[i].gridCol # Undefined
             /\ cellsHas(grid.cells, cellKey(result.batch[i].gridRow, result.batch[i].gridCol))
             /\ cellsGet(grid.cells, cellKey(result.batch[i].gridRow, result.batch[i].gridCol))
                   = result.batch[i].ID_xA

\* the ids of the records of a batch
batchIds(batch) == { batch[i].ID_xA : i \in 1..Len(batch) }

\* C11: replaceInGrid on a record of the current batch that has a coordinate
\* removes it from the batch and picks the first selected record that is not
\* scored, not undecided and not in the remaining batch; that record is appended
\* to the batch at the departing coordinate and returned; when there is none,
\* null is returned and the coordinate ends up free.
C11_ReplaceInGrid ==
    [][ (/\ result'.op = "replaceInGrid"
         /\ \E i \in 1..Len(currentBatchCandidates) :
               /\ currentBatchCandidates[i].ID_xA = result'.id
               /\ \A j \in 1..(i - 1) : currentBatchCandidates[j].ID_xA # result'.id
               /\ currentBatchCandidates[i].gridRow # Undefined)
        => LET i == CHOOSE k \in 1..Len(currentBatchCandidates) :
                       /\ currentBatchCandidates[k].ID_xA = result'.id
                       /\ \A j \in 1..(k - 1) : currentBatchCandidates[j].ID_xA # result'.id
               dep == currentBatchCandidates[i]
               remaining == SelectSeq(currentBatchCandidates,
                                      LAMBDA c : c.ID_xA # result'.id)
               eligible == { k \in 1..Len(selectedCandidates) :
                               /\ selectedCandidates[k] \notin DOMAIN scores
                               /\ selectedCandidates[k] \notin undecided
                               /\ selectedCandidates[k] \notin batchIds(remaining) }
           IN  IF eligible # {}
               THEN LET first == CHOOSE k \in eligible : \A m \in eligible : k <= m
                        placed == [ID_xA |-> selectedCandidates[first],
                                   gridRow |-> dep.gridRow, gridCol |-> dep.gridCol]
                    IN  /\ result'.replaced
                        /\ result'.next = <<placed>>
                        /\ currentBatchCandidates' = Append(remaining, placed)
                        /\ cellsGet(grid'.cells, cellKey(dep.gridRow, dep.gridCol))
                              = placed.ID_xA
               ELSE /\ ~result'.replaced
                    /\ result'.next = <<>>
                    /\ currentBatchCandidates' = remaining
                    /\ ~cellsHas(grid'.cells, cellKey(dep.gridRow, dep.gridCol))
                    /\ [row |-> dep.gridRow, col |-> dep.gridCol]
                          \in Range(grid'.availableCells) ]_vars

\* C11 witness: replaceInGrid put another record at the departing coordinate
C11_Witness ==
    /\ result.op = "replaceInGrid"
    /\ result.replaced
    /\ result.next[1].ID_xA # result.id
    /\ result.id \in DOMAIN scores

\* C12: no engine operation adds, removes or changes a field of a record object
\* of the caller's dataset: grid coordinates are only written on copies, and
\* loadSession leaves every record of the dataset it is given unchanged.
C12_RecordsUntouched == \A id \in CandidateIds : records[id] = NoFields

\* a record passes the four filter stages under the criteria: non-blank name,
\* group filter, rank filter, score threshold
eligible(c, criteria) ==
    /\ c.Node_xA \notin {"", " "}
    /\ criteria.groupFilter = {} \/ c.Group_xA \in criteria.groupFilter
    /\ \/ criteria.rankFilter = "all"
       \/ criteria.rankFilter = "unranked" /\ c.Rank_xB = Empty
       \/ criteria.rankFilter = "ranked" /\ c.Rank_xB # Empty
    /\ IF c.AI_Rank_xB = Empty
       THEN criteria.aiScoreThreshold = [min |-> 0, max |-> 100]
       ELSE /\ criteria.aiScoreThreshold.min <= c.AI_Rank_xB
            /\ c.AI_Rank_xB <= criteria.aiScoreThreshold.max

eligibleIds(criteria) ==
    { AllCandidates[i].ID_xA : i \in { k \in 1..Len(AllCandidates) :
                                          eligible(AllCandidates[k], criteria) } }

\* C13 as stated: every createSession call, whatever it returns, clears the
\* previously persisted session: afterwards the slot is empty or holds the
\* session that call returned.
C13_CreateAlwaysClears ==
    [][ result'.op = "createSession"
        => \/ storage' = <<>>
           \/ ~result'.error /\ storage' = <<serializable'>> ]_vars

\* C13 amended: on working storage, a createSession call that returns a session
\* leaves the slot holding that session and nothing of the earlier one; a call
\* that returns the no-eligible-records result leaves the slot, and the session
\* persisted in it, exactly as it was.
C13_CreateReplacesSlot ==
    [][ (result'.op = "createSession" /\ ~storageThrows')
        => IF eligibleIds(result'.options) = {}
           THEN storage' = storage
           ELSE /\ ~result'.error
                /\ storage' = <<serializable'>>
                /\ storage'[1].selectedIds = result'.selected
                /\ storage'[1].scores = <<>>
                /\ storage'[1].undecided = {}
                /\ storage'[1].currentBatchData = <<>> ]_vars

\* C13 witness: a createSession call returned the no-eligible-records result
\* while the slot held the session of an earlier call
C13_Witness ==
    /\ result.op = "createSession"
    /\ result.error
    /\ storage # <<>>
    /\ calls > 0

\* C14: createSession over a collection of which no record passes the filter
\* stages returns an error message with a non-empty list of suggestions and
\* creates no session: the session the caller holds and the persisted slot are
\* as they were.
C14_NoEligible ==
    [][ (result'.op = "createSession" /\ eligibleIds(result'.options) = {})
        => /\ result'.error
           /\ Len(result'.suggestions) > 0
           /\ result'.selected = <<>>
           /\ storage' = storage
           /\ UNCHANGED sessionVars ]_vars

\* C14 witness: a createSession call whose group filter no record passes
C14_Witness ==
    /\ result.op = "createSession"
    /\ calls > 0
    /\ eligibleIds(result.options) = {}
    /\ result.suggestions # <<>>

\* C15: loadSession on a slot holding a not-completed session with N selected
\* ids of which R resolve in the dataset given: if 10R < 9N it returns null and
\* the slot is empty afterwards; otherwise it returns a session whose selected
\* records are exactly the resolvable ids in their persisted order, and the slot
\* is left as it was.
C15_Staleness ==
    [][ (/\ result'.op = "loadSession"
         /\ storage # <<>>
         /\ storage[1].completedAt = Null)
        => LET ids == storage[1].selectedIds
               N   == Len(ids)
               R   == Cardinality({ i \in 1..N : ids[i] \in result'.dataset })
           IN  IF 10 * R < 9 * N
               THEN /\ ~result'.loaded
                    /\ storage' = <<>>
               ELSE /\ result'.loaded
                    /\ Len(selectedCandidates') = R
                    /\ Range(selectedCandidates') = Range(ids) \cap result'.dataset
                    /\ \A i, j \in 1..R :
                          i < j => \E k, l \in 1..N : /\ k < l
                                                      /\ ids[k] = selectedCandidates'[i]
                                                      /\ ids[l] = selectedCandidates'[j]
                    /\ storage' = storage ]_vars

\* C15 witness: a session was loaded although one of its selected ids did not
\* resolve in the dataset
C15_Witness ==
    /\ result.op = "loadSession"
    /\ result.loaded
    /\ Len(selectedCandidates) < Len(selectedIds)
    /\ DOMAIN scores # {}

\* C16: once scoreCandidate, skipCandidate or massScoreByAttribute has set
\* completedAt on the current session, on working storage, every later
\* loadSession returns null and every later hasResumableSession returns false,
\* until a createSession call returns a new session.
C16_CompletedNotResumable ==
    [][ completedAt # Null
        => /\ result'.op = "loadSession" => ~result'.loaded
           /\ result'.op = "hasResumableSession" => ~result'.resumable ]_vars

\* C16 witness: loadSession returned null on the slot holding the completed session
C16_Witness ==
    /\ result.op = "loadSession"
    /\ ~result.loaded
    /\ completedAt # Null
    /\ storage # <<>>
    /\ storage[1].completedAt # Null
    /\ storage[1].selectedIds = selectedIds

\* the (id, coordinate) pairs of a batch
batchPairs(batch) ==
    [i \in 1..Len(batch) |-> <<batch[i].ID_xA, batch[i].gridRow, batch[i].gridCol>>]

\* C17: for a not-completed session, saveSession followed by loadSession on the
\* unchanged dataset returns a session with the same selected ids in the same
\* order, the same scores, the same undecided set, the same currentBatchIndex,
\* the same (id, coordinate) pairs of the current batch and the same grid cells
\* and availableCells. The dataset is unchanged when it resolves the selected
\* ids to exactly the records the session holds.
C17_RoundTrip ==
    [][ (/\ result'.op = "loadSession"
         /\ storage = <<serializable>>
         /\ completedAt = Null
         /\ Range(selectedIds) \cap result'.dataset = Range(selectedCandidates))
        => /\ result'.loaded
           /\ selectedCandidates' = selectedCandidates
           /\ selectedIds' = selectedIds
           /\ DOMAIN scores' = DOMAIN scores
           /\ \A id \in DOMAIN scores : scores'[id] = scores[id]
           /\ undecided' = undecided
           /\ currentBatchIndex' = currentBatchIndex
           /\ batchPairs(currentBatchCandidates') = batchPairs(currentBatchCandidates)
           /\ grid'.cells = grid.cells
           /\ grid'.availableCells = grid.availableCells ]_vars

\* C17 witness: a session with a placed batch, a score and an undecided record
\* came back from loadSession
C17_Witness ==
    /\ result.op = "loadSession"
    /\ result.loaded
    /\ Range(selectedIds) \cap result.dataset = Range(selectedCandidates)
    /\ Len(currentBatchCandidates) > 0
    /\ Len(grid.cells) > 0
    /\ DOMAIN scores \cup undecided # {}
    /\ storage = <<serializable>>

\* the operations that work on the session in memory and then save it
SessionOps ==
    { "createSession", "scoreCandidate", "skipCandidate", "advanceToNextBatch",
      "getNextBatchWithGridPositions", "removeFromBatch", "replaceInGrid",
      "massScoreByAttribute" }

\* the call that returned r, made again with the same arguments
sameCall(r) ==
    \/ /\ r.op = "createSession"
       /\ createSessionOn(AllCandidates, r.options, DateNow)
    \/ r.op = "scoreCandidate" /\ scoreCandidate(r.id, r.score)
    \/ r.op = "skipCandidate" /\ skipCandidate(r.id)
    \/ r.op = "advanceToNextBatch" /\ advanceToNextBatch
    \/ r.op = "getNextBatchWithGridPositions" /\ getNextBatchWithGridPositions
    \/ r.op = "removeFromBatch" /\ removeFromBatch(r.id)
    \/ r.op = "replaceInGrid" /\ replaceInGrid(r.id)
    \/ /\ r.op = "massScoreByAttribute"
       /\ massScoreByAttribute(r.attributeType, r.attributeValue, r.score, r.useAllNodes)

\* C18: when the storage throws during a call, saveSession and clearSession
\* change nothing, loadSession returns null and hasResumableSession returns
\* false; and each of createSession, scoreCandidate, skipCandidate,
\* advanceToNextBatch, getNextBatchWithGridPositions, removeFromBatch,
\* replaceInGrid and massScoreByAttribute returns, with the result and the
\* in-memory session the same call gives from the same state on working
\* storage: each outcome on throwing storage is an outcome on working storage,
\* and each outcome on working storage is one on throwing storage.
C18_StorageFaults ==
    [][ /\ storageThrows'
           => /\ storage' = storage
              /\ result'.op \in {"saveSession", "clearSession"} => UNCHANGED sessionVars
              /\ result'.op = "loadSession" => ~result'.loaded /\ UNCHANGED sessionVars
              /\ result'.op = "hasResumableSession" => ~result'.resumable
        /\ result'.op \in SessionOps
           => \E r \in {result'}, sv \in {sessionVars'}, thr \in {storageThrows'} :
                 ENABLED (/\ storageThrows' = ~thr
                          /\ sameCall(r)
                          /\ result' = r
                          /\ sessionVars' = sv) ]_vars

\* C18 witness: a scoreCandidate call completed the session while the storage
\* threw, and the slot still holds the session as it was before
C18_Witness ==
    /\ storageThrows
    /\ result.op = "scoreCandidate"
    /\ result.success
    /\ completedAt # Null
    /\ storage # <<>>
    /\ storage[1].completedAt = Null

\* C19: two createSession calls with the same collection and the same criteria
\* produce the same selected records in the same order; for selection method
\* random this holds for every explicitly supplied integer seed, zero included,
\* and the seed stored in session.config equals the supplied seed.
C19_Deterministic ==
    [][ (result'.op = "createSession" /\ ~result'.error)
        => /\ (/\ result.op = "createSession"
               /\ result.options = result'.options
               /\ \/ result'.options.selectionMethod # "random"
                  \/ result'.options.randomSeed # NoSeed)
              => result'.selected = result.selected
           /\ (/\ result'.options.selectionMethod = "random"
               /\ result'.options.randomSeed # NoSeed)
              => config'.randomSeed = result'.options.randomSeed ]_vars

\* C20: the public countEligible(R, C) returns the number of records of R that
\* pass the four filter stages under that same C, without ordering or size cap.
C20_CountEligible ==
    result.op = "countEligible"
    => result.count = Cardinality({ i \in 1..Len(result.nodes) :
                                       eligible(result.nodes[i], result.filters) })

\* C21: createSession keeps the first min(selection count, number of eligible
\* records) records of the ordered eligible set, and every eligible record when
\* the caller requests no selection count; afterwards no session operation
\* changes the selected records.
C21_SelectionCount ==
    [][ IF result'.op = "createSession"
        THEN ~result'.error
             => LET given   == result'.options
                    ordered == filterCandidates(ManyCandidates,
                                  [merged(given) EXCEPT !.selectionCount = Len(ManyCandidates)])
                    N       == Cardinality({ i \in 1..Len(ManyCandidates) :
                                                eligible(ManyCandidates[i], merged(given)) })
                    keep    == IF "selectionCount" \in DOMAIN given
                               THEN Min(given.selectionCount, N)
                               ELSE N
                IN  /\ Len(ordered) = N
                    /\ selectedCandidates' = [i \in 1..keep |-> ordered[i].ID_xA]
        ELSE selectedCandidates' = selectedCandidates ]_vars

\* the last batch index of the session: ceil(selected / batchSize) - 1
lastBatchIndex == Ceil(Len(selectedCandidates), batchSize) - 1

\* C22: advanceToNextBatch increments currentBatchIndex and returns true exactly
\* when currentBatchIndex < ceil(selected / batchSize) - 1, and otherwise returns
\* false and changes neither the session nor the persisted snapshot; hence in
\* every reachable state 0 <= currentBatchIndex <= ceil(selected / batchSize) - 1.
C22_AdvanceToNextBatch ==
    /\ [][ result'.op = "advanceToNextBatch"
           => IF currentBatchIndex < lastBatchIndex
              THEN /\ result'.advanced
                   /\ currentBatchIndex' = currentBatchIndex + 1
              ELSE /\ ~result'.advanced
                   /\ UNCHANGED <<sessionVars, storage>> ]_vars
    /\ [](0 <= currentBatchIndex /\ currentBatchIndex <= lastBatchIndex)

\* C23: no two records of currentBatchCandidates that were given a cell have the
\* same grid coordinate,
\* and no id appears twice in it, whichever of getNextBatchWithGridPositions,
\* removeFromBatch, replaceInGrid and massScoreByAttribute have run.
C23_BatchDistinct ==
    \A i, j \in 1..Len(currentBatchCandidates) :
        i # j => /\ currentBatchCandidates[i].ID_xA # currentBatchCandidates[j].ID_xA
                 /\ currentBatchCandidates[i].gridRow # Undefined
                    => <<currentBatchCandidates[i].gridRow, currentBatchCandidates[i].gridCol>>
                          # <<currentBatchCandidates[j].gridRow, currentBatchCandidates[j].gridCol>>

\* C24: the grid and the batch agree: a key is in grid.cells with id X exactly
\* when currentBatchCandidates holds a record X annotated with that coordinate;
\* no cell stays occupied by a record that left the batch or that loadSession
\* could not resolve.
C24_GridMatchesBatch ==
    /\ \A k \in 1..Len(grid.cells) :
          \E i \in 1..Len(currentBatchCandidates) :
             /\ currentBatchCandidates[i].ID_xA = grid.cells[k].id
             /\ currentBatchCandidates[i].gridRow # Undefined
             /\ cellKey(currentBatchCandidates[i].gridRow, currentBatchCandidates[i].gridCol)
                   = grid.cells[k].key
    /\ \A i \in 1..Len(currentBatchCandidates) :
          currentBatchCandidates[i].gridRow # Undefined
          => \E k \in 1..Len(grid.cells) :
                /\ grid.cells[k].id = currentBatchCandidates[i].ID_xA
                /\ grid.cells[k].key = cellKey(currentBatchCandidates[i].gridRow,
                                               currentBatchCandidates[i].gridCol)

\* C25: getProgress returns 0 <= remaining <= total, scored + skipped +
\* remaining = total, 0 <= percentComplete <= 100 and 1 <= currentWave <=
\* totalWaves, also after massScoreByAttribute over the full dataset and after
\* skipCandidate or scoreCandidate on any id.
C25_Progress ==
    LET p == getProgress
    IN  /\ 0 <= p.remaining
        /\ p.remaining <= p.total
        /\ p.scored + p.skipped + p.remaining = p.total
        /\ 0 <= p.percentComplete
        /\ p.percentComplete <= 100
        /\ 1 <= p.currentWave
        /\ p.currentWave <= p.totalWaves

shownIds(batch) == { batch[i].ID_xA : i \in 1..Len(batch) }

\* C27: in the wave flow of an evaluation, a card that a fade-out callback has
\* removed from the displayed batch is not put back by the callback of another
\* card, however the callbacks interleave with the effect that copies
\* gridEvalBatch into gridEvalBatchRef; and the next wave is loaded only when
\* every card of the wave has been removed.
C27_FadeOutRemoves ==
    [][ (isEvalSession /\ result'.op \in {"fadeOut", "nextWave"}
                       /\ result'.timer.session = evalStarted)
        => IF result'.op = "fadeOut"
           THEN shownIds(gridEvalBatch') \subseteq shownIds(gridEvalBatch) \ {result'.timer.id}
           ELSE gridEvalBatch' # gridEvalBatch => gridEvalBatch = <<>> ]_vars

\* C28: a timer scheduled during an evaluation has no effect once
\* handleExitGridEval has run: until the next handleStartGridEval the batch
\* stays empty, gridEvalGridRef stays null and All Done stays off; and a timer
\* of an earlier evaluation neither replaces the grid or the batch of a later one
\* nor ends it.
C28_TimersDieWithSession ==
    /\ [](~isEvalSession => /\ gridEvalBatch = <<>>
                            /\ gridEvalGridRef = <<>>
                            /\ ~gridEvalAllDone)
    /\ [][ (result'.op \in {"fadeOut", "nextWave", "autoExit"}
            /\ result'.timer.session # evalStarted)
           => UNCHANGED <<gridEvalBatch, gridEvalGridRef, isEvalSession, gridEvalAllDone>> ]_vars

\* the cards of the loaded file
CardIds == { LoadedNodes[i].ID_xA : i \in 1..Len(LoadedNodes) }

\* C29: in the wave flow started with the rank filter 'unranked', if the user
\* rates every displayed card and every timer fires, the evaluation shows All
\* Done and then ends (isEvalSession false); and a card that was skipped is not
\* loaded again by a later wave.
C29_WaveFlowEnds ==
    /\ isEvalSession ~> gridEvalAllDone
    /\ gridEvalAllDone ~> ~isEvalSession
    /\ \A id \in CardIds :
          []((result.op = "handleGridSkip" /\ result.id = id)
             => []~(result.op = "nextWave" /\ id \in shownIds(gridEvalBatch)))

\* C30: after a grid score or skip applied to an array that was the top of the
\* undo history, one undo restores the array as it was immediately before the
\* change, and one redo then restores the scored array.
C30_UndoRedoAroundScore ==
    (result.op \in {"handleGridScore", "handleGridSkip"} /\ result.wasTop)
    => LET undone == undo(historyRef)
       IN  /\ undone.value = <<result.before>>
           /\ redo(undone.h).value = <<nodes>>

====
